---- MODULE Spec2Model ----
(***************************************************************************)
(* State-machine model of the group-chat pet engine: one chat row (the     *)
(* pet), one acting user, the scheduler jobs and the bot handlers.         *)
(*                                                                         *)
(* Every handler and every per-pet scheduler body is one action: it reads  *)
(* the row, applies each CRUD call in source order and commits.  The       *)
(* session object a handler holds follows the rows it writes: an ORM       *)
(* update() synchronises the loaded Chat object and add_xp() refreshes it, *)
(* so inside one handler a later read of chat.<stat> sees the handler's    *)
(* own earlier write.                                                      *)
(*                                                                         *)
(* Timestamps are never read by the engine; death_at and last_interaction  *)
(* are kept as "None" / "utcnow", created_at and last_tick (always set)    *)
(* are left out of the row and the tick's stamping is reported in `last`.  *)
(***************************************************************************)
EXTENDS Integers, Sequences, FiniteSets, TLC

VARIABLES
    has_chat,   \* the chats table holds the row of this chat
    chat,       \* the Chat row (the pet)
    users,      \* the User rows of this chat, by user id
    offers,     \* gamble keyboards currently shown in the chat
    clock,      \* number of handler / job runs so far
    last,       \* what the latest handler or job returned
    appended,   \* the Event rows the latest handler or job appended
    night,      \* the latest is_night_time call: clock hour, window, return value
    draw,       \* the random values of a trigger_random_event call run on its own
    race,       \* a tick job and a /feed handler in flight on this chat
    batch,      \* a scheduler pass in flight over the rows of several chats
    flight,     \* one handler in flight on this chat: its Chat object, its calls left
    events      \* the events table of this chat, when its rows are kept

vars == <<has_chat, chat, users, offers, clock, last, appended, night, draw,
          race, batch, flight, events>>

----------------------------------------------------------------------------
(* Bounds of the model *)

MaxSteps == 2
MaxOffers == 1

(* Configuration defaults, src/config.py *)

STAT_DECAY_PER_TICK == 5
CRITICAL_HEALTH_THRESHOLD == 10
NIGHT_START_HOUR == 0
NIGHT_END_HOUR == 7
XP_PER_MESSAGE == 1
XP_PER_FEED == 5
XP_PER_GAME == 10

----------------------------------------------------------------------------
(* Python builtins *)

Min(a, b) == IF a < b THEN a ELSE b
Max(a, b) == IF a > b THEN a ELSE b

----------------------------------------------------------------------------
(* database/models.py *)

PetStage == {"EGG", "BABY", "TEEN", "ADULT", "ANCIENT"}
PetType == {"NORMAL", "GOBLIN", "MEME_CAT", "CYBER_BOT", "TROLL", "ANGEL"}
EventType == {"BIRTH", "DEATH", "EVOLUTION", "FEED", "PLAY", "GAMBLE_WIN",
              "GAMBLE_LOSS", "RANDOM_EVENT", "CRITICAL_HEALTH", "NIGHT_DISTURB"}

\* Column defaults of a freshly inserted Chat row.
NewChat ==
    [pet_stage |-> "EGG", pet_type |-> "NORMAL",
     hunger |-> 100, mood |-> 100, energy |-> 100, health |-> 100,
     xp |-> 0, level |-> 1,
     is_alive |-> TRUE, is_sleeping |-> FALSE,
     cursing_count |-> 0, meme_count |-> 0, code_count |-> 0, caps_count |-> 0,
     last_interaction |-> "None", death_at |-> "None"]

\* Column defaults of a User row; present = the row exists.
NewUser ==
    [present |-> FALSE,
     karma_points |-> 0, feed_count |-> 0, play_count |-> 0, message_count |-> 0,
     night_disturb_count |-> 0, gamble_wins |-> 0, gamble_losses |-> 0]

\* An Event row: type and optional actor.
Event(event_type, user_id) == [event_type |-> event_type, user_id |-> user_id]

----------------------------------------------------------------------------
(* database/crud.py: ChatCRUD *)

\* update_stats: each given stat is clamped to 0..100, last_interaction stamped.
UpdateStats(c, stats) ==
    [c EXCEPT
        !.hunger = IF "hunger" \in DOMAIN stats THEN Max(0, Min(100, stats.hunger)) ELSE @,
        !.mood   = IF "mood" \in DOMAIN stats THEN Max(0, Min(100, stats.mood)) ELSE @,
        !.energy = IF "energy" \in DOMAIN stats THEN Max(0, Min(100, stats.energy)) ELSE @,
        !.health = IF "health" \in DOMAIN stats THEN Max(0, Min(100, stats.health)) ELSE @,
        !.last_interaction = "utcnow"]

AddXp(c, xp_amount) ==
    LET xp == c.xp + xp_amount
        new_level == (xp \div 100) + 1
    IN [c EXCEPT !.xp = xp,
                 !.level = IF new_level > c.level THEN new_level ELSE c.level]

KillPet(c) ==
    [c EXCEPT !.is_alive = FALSE, !.death_at = "utcnow", !.health = 0]

RevivePetNoCaps(c) ==
    [c EXCEPT !.is_alive = TRUE, !.death_at = "None",
              !.pet_stage = "EGG", !.pet_type = "NORMAL",
              !.hunger = 100, !.mood = 100, !.energy = 100, !.health = 100,
              !.xp = 0, !.level = 1,
              !.cursing_count = 0, !.meme_count = 0, !.code_count = 0]

\* revive_pet without pet_type among the columns it resets.
RevivePetKeepType(c) ==
    [c EXCEPT !.is_alive = TRUE, !.death_at = "None",
              !.pet_stage = "EGG",
              !.hunger = 100, !.mood = 100, !.energy = 100, !.health = 100,
              !.xp = 0, !.level = 1,
              !.cursing_count = 0, !.meme_count = 0, !.code_count = 0,
              !.caps_count = 0]

\* revive_pet with is_sleeping among the columns it resets.
RevivePetAwake(c) ==
    [c EXCEPT !.is_alive = TRUE, !.death_at = "None",
              !.pet_stage = "EGG", !.pet_type = "NORMAL",
              !.hunger = 100, !.mood = 100, !.energy = 100, !.health = 100,
              !.xp = 0, !.level = 1,
              !.cursing_count = 0, !.meme_count = 0, !.code_count = 0,
              !.caps_count = 0, !.is_sleeping = FALSE]

RevivePet(c) ==
    [c EXCEPT !.is_alive = TRUE, !.death_at = "None",
              !.pet_stage = "EGG", !.pet_type = "NORMAL",
              !.hunger = 100, !.mood = 100, !.energy = 100, !.health = 100,
              !.xp = 0, !.level = 1,
              !.cursing_count = 0, !.meme_count = 0, !.code_count = 0,
              !.caps_count = 0]

Evolve(c, new_stage, new_type) ==
    [c EXCEPT !.pet_stage = new_stage, !.pet_type = new_type]

ValidCounters == {"cursing_count", "meme_count", "code_count", "caps_count"}

IncrementBehaviorCounter(c, counter_type, amount) ==
    IF counter_type \notin ValidCounters THEN c
    ELSE [c EXCEPT ![counter_type] = @ + amount]

(* database/crud.py: UserCRUD *)

ValidStats == {"karma_points", "feed_count", "play_count", "message_count",
               "night_disturb_count", "gamble_wins", "gamble_losses"}

GetOrCreateUser(us, user_id) ==
    [us EXCEPT ![user_id].present = TRUE]

\* increment_stat looking the user up before it validates the name.
IncrementStatLateCheck(us, user_id, stat_name, amount) ==
    IF stat_name \notin ValidStats THEN GetOrCreateUser(us, user_id)
    ELSE [GetOrCreateUser(us, user_id) EXCEPT ![user_id][stat_name] = @ + amount]

IncrementStat(us, user_id, stat_name, amount) ==
    IF stat_name \notin ValidStats THEN us
    ELSE [GetOrCreateUser(us, user_id) EXCEPT ![user_id][stat_name] = @ + amount]

----------------------------------------------------------------------------
(* services/pet_logic.py *)

\* tick_stats: decay, health penalty on the decayed values, death, critical alert.
TickStatsRaw(c) ==
    IF ~c.is_alive
    THEN [chat |-> c, events |-> <<>>, is_alive |-> FALSE, is_critical |-> FALSE,
          last_tick_stamped |-> FALSE]
    ELSE
        LET decay == STAT_DECAY_PER_TICK
            new_hunger == c.hunger - decay
            new_mood == c.mood - decay
            new_energy == c.energy - decay
            health_penalty == (IF new_hunger < 20 THEN 10 ELSE 0)
                              + (IF new_mood < 20 THEN 5 ELSE 0)
                              + (IF new_energy < 20 THEN 5 ELSE 0)
            new_health == Max(0, c.health - health_penalty)
            c1 == [c EXCEPT !.hunger = new_hunger, !.mood = new_mood,
                            !.energy = new_energy, !.health = new_health,
                            !.last_interaction = "utcnow"]
        IN IF new_health <= 0
           THEN [chat |-> KillPet(c1), events |-> <<Event("DEATH", "None")>>,
                 is_alive |-> FALSE, is_critical |-> TRUE, last_tick_stamped |-> FALSE]
           ELSE LET is_critical == new_health < CRITICAL_HEALTH_THRESHOLD
                IN [chat |-> c1,
                    events |-> IF is_critical
                               THEN <<Event("CRITICAL_HEALTH", "None")>> ELSE <<>>,
                    is_alive |-> TRUE, is_critical |-> is_critical,
                    last_tick_stamped |-> TRUE]

\* tick_stats with the health penalty tested on the values before the decay.
TickStatsPreDecay(c) ==
    IF ~c.is_alive
    THEN [chat |-> c, events |-> <<>>, is_alive |-> FALSE, is_critical |-> FALSE,
          last_tick_stamped |-> FALSE]
    ELSE
        LET decay == STAT_DECAY_PER_TICK
            new_hunger == Max(0, c.hunger - decay)
            new_mood == Max(0, c.mood - decay)
            new_energy == Max(0, c.energy - decay)
            health_penalty == (IF c.hunger < 20 THEN 10 ELSE 0)
                              + (IF c.mood < 20 THEN 5 ELSE 0)
                              + (IF c.energy < 20 THEN 5 ELSE 0)
            new_health == Max(0, c.health - health_penalty)
            c1 == UpdateStats(c, [hunger |-> new_hunger, mood |-> new_mood,
                                  energy |-> new_energy, health |-> new_health])
        IN IF new_health <= 0
           THEN [chat |-> KillPet(c1), events |-> <<Event("DEATH", "None")>>,
                 is_alive |-> FALSE, is_critical |-> TRUE, last_tick_stamped |-> FALSE]
           ELSE LET is_critical == new_health < CRITICAL_HEALTH_THRESHOLD
                IN [chat |-> c1,
                    events |-> IF is_critical
                               THEN <<Event("CRITICAL_HEALTH", "None")>> ELSE <<>>,
                    is_alive |-> TRUE, is_critical |-> is_critical,
                    last_tick_stamped |-> TRUE]

\* tick_stats without the death branch.
TickStatsNoKill(c) ==
    IF ~c.is_alive
    THEN [chat |-> c, events |-> <<>>, is_alive |-> FALSE, is_critical |-> FALSE,
          last_tick_stamped |-> FALSE]
    ELSE
        LET decay == STAT_DECAY_PER_TICK
            new_hunger == Max(0, c.hunger - decay)
            new_mood == Max(0, c.mood - decay)
            new_energy == Max(0, c.energy - decay)
            health_penalty == (IF new_hunger < 20 THEN 10 ELSE 0)
                              + (IF new_mood < 20 THEN 5 ELSE 0)
                              + (IF new_energy < 20 THEN 5 ELSE 0)
            new_health == Max(0, c.health - health_penalty)
            c1 == UpdateStats(c, [hunger |-> new_hunger, mood |-> new_mood,
                                  energy |-> new_energy, health |-> new_health])
            is_critical == new_health < CRITICAL_HEALTH_THRESHOLD
        IN [chat |-> c1,
            events |-> IF is_critical
                       THEN <<Event("CRITICAL_HEALTH", "None")>> ELSE <<>>,
            is_alive |-> TRUE, is_critical |-> is_critical,
            last_tick_stamped |-> TRUE]

\* tick_stats raising the critical alert only on the tick that takes the
\* health below the threshold.
TickStatsAlertOnce(c) ==
    IF ~c.is_alive
    THEN [chat |-> c, events |-> <<>>, is_alive |-> FALSE, is_critical |-> FALSE,
          last_tick_stamped |-> FALSE]
    ELSE
        LET decay == STAT_DECAY_PER_TICK
            new_hunger == Max(0, c.hunger - decay)
            new_mood == Max(0, c.mood - decay)
            new_energy == Max(0, c.energy - decay)
            health_penalty == (IF new_hunger < 20 THEN 10 ELSE 0)
                              + (IF new_mood < 20 THEN 5 ELSE 0)
                              + (IF new_energy < 20 THEN 5 ELSE 0)
            new_health == Max(0, c.health - health_penalty)
            c1 == UpdateStats(c, [hunger |-> new_hunger, mood |-> new_mood,
                                  energy |-> new_energy, health |-> new_health])
        IN IF new_health <= 0
           THEN [chat |-> KillPet(c1), events |-> <<Event("DEATH", "None")>>,
                 is_alive |-> FALSE, is_critical |-> TRUE, last_tick_stamped |-> FALSE]
           ELSE LET is_critical == new_health < CRITICAL_HEALTH_THRESHOLD
                                   /\ ~(c.health < CRITICAL_HEALTH_THRESHOLD)
                IN [chat |-> c1,
                    events |-> IF is_critical
                               THEN <<Event("CRITICAL_HEALTH", "None")>> ELSE <<>>,
                    is_alive |-> TRUE, is_critical |-> is_critical,
                    last_tick_stamped |-> TRUE]

\* tick_stats taking the health penalty for a low hunger only.
TickStatsHungerPenalty(c) ==
    IF ~c.is_alive
    THEN [chat |-> c, events |-> <<>>, is_alive |-> FALSE, is_critical |-> FALSE,
          last_tick_stamped |-> FALSE]
    ELSE
        LET decay == STAT_DECAY_PER_TICK
            new_hunger == Max(0, c.hunger - decay)
            new_mood == Max(0, c.mood - decay)
            new_energy == Max(0, c.energy - decay)
            health_penalty == IF new_hunger < 20 THEN 10 ELSE 0
            new_health == Max(0, c.health - health_penalty)
            c1 == UpdateStats(c, [hunger |-> new_hunger, mood |-> new_mood,
                                  energy |-> new_energy, health |-> new_health])
        IN IF new_health <= 0
           THEN [chat |-> KillPet(c1), events |-> <<Event("DEATH", "None")>>,
                 is_alive |-> FALSE, is_critical |-> TRUE, last_tick_stamped |-> FALSE]
           ELSE LET is_critical == new_health < CRITICAL_HEALTH_THRESHOLD
                IN [chat |-> c1,
                    events |-> IF is_critical
                               THEN <<Event("CRITICAL_HEALTH", "None")>> ELSE <<>>,
                    is_alive |-> TRUE, is_critical |-> is_critical,
                    last_tick_stamped |-> TRUE]

TickStats(c) ==
    IF ~c.is_alive
    THEN [chat |-> c, events |-> <<>>, is_alive |-> FALSE, is_critical |-> FALSE,
          last_tick_stamped |-> FALSE]
    ELSE
        LET decay == STAT_DECAY_PER_TICK
            new_hunger == Max(0, c.hunger - decay)
            new_mood == Max(0, c.mood - decay)
            new_energy == Max(0, c.energy - decay)
            health_penalty == (IF new_hunger < 20 THEN 10 ELSE 0)
                              + (IF new_mood < 20 THEN 5 ELSE 0)
                              + (IF new_energy < 20 THEN 5 ELSE 0)
            new_health == Max(0, c.health - health_penalty)
            c1 == UpdateStats(c, [hunger |-> new_hunger, mood |-> new_mood,
                                  energy |-> new_energy, health |-> new_health])
        IN IF new_health <= 0
           THEN [chat |-> KillPet(c1), events |-> <<Event("DEATH", "None")>>,
                 is_alive |-> FALSE, is_critical |-> TRUE, last_tick_stamped |-> FALSE]
           ELSE LET is_critical == new_health < CRITICAL_HEALTH_THRESHOLD
                IN [chat |-> c1,
                    events |-> IF is_critical
                               THEN <<Event("CRITICAL_HEALTH", "None")>> ELSE <<>>,
                    is_alive |-> TRUE, is_critical |-> is_critical,
                    last_tick_stamped |-> TRUE]

\* feed without the add_xp call.
FeedNoXp(c, user_id) ==
    IF ~c.is_alive THEN [chat |-> c, events |-> <<>>, success |-> FALSE]
    ELSE IF c.is_sleeping THEN [chat |-> c, events |-> <<>>, success |-> FALSE]
    ELSE
        LET new_hunger == Min(100, c.hunger + 30)
            new_mood == Min(100, c.mood + 5)
            c1 == UpdateStats(c, [hunger |-> new_hunger, mood |-> new_mood])
        IN [chat |-> c1, events |-> <<Event("FEED", user_id)>>, success |-> TRUE]

Feed(c, user_id) ==
    IF ~c.is_alive THEN [chat |-> c, events |-> <<>>, success |-> FALSE]
    ELSE IF c.is_sleeping THEN [chat |-> c, events |-> <<>>, success |-> FALSE]
    ELSE
        LET new_hunger == Min(100, c.hunger + 30)
            new_mood == Min(100, c.mood + 5)
            c1 == UpdateStats(c, [hunger |-> new_hunger, mood |-> new_mood])
            c2 == AddXp(c1, XP_PER_FEED)
        IN [chat |-> c2, events |-> <<Event("FEED", user_id)>>, success |-> TRUE]

\* play with the tiredness test also rejecting energy 20.
PlayTiredAt20(c, user_id) ==
    IF ~c.is_alive THEN [chat |-> c, events |-> <<>>, success |-> FALSE]
    ELSE IF c.is_sleeping THEN [chat |-> c, events |-> <<>>, success |-> FALSE]
    ELSE IF c.energy <= 20 THEN [chat |-> c, events |-> <<>>, success |-> FALSE]
    ELSE
        LET new_mood == Min(100, c.mood + 20)
            new_energy == Max(0, c.energy - 10)
            new_hunger == Max(0, c.hunger - 5)
            c1 == UpdateStats(c, [mood |-> new_mood, energy |-> new_energy,
                                  hunger |-> new_hunger])
            c2 == AddXp(c1, XP_PER_GAME)
        IN [chat |-> c2, events |-> <<Event("PLAY", user_id)>>, success |-> TRUE]

Play(c, user_id) ==
    IF ~c.is_alive THEN [chat |-> c, events |-> <<>>, success |-> FALSE]
    ELSE IF c.is_sleeping THEN [chat |-> c, events |-> <<>>, success |-> FALSE]
    ELSE IF c.energy < 20 THEN [chat |-> c, events |-> <<>>, success |-> FALSE]
    ELSE
        LET new_mood == Min(100, c.mood + 20)
            new_energy == Max(0, c.energy - 10)
            new_hunger == Max(0, c.hunger - 5)
            c1 == UpdateStats(c, [mood |-> new_mood, energy |-> new_energy,
                                  hunger |-> new_hunger])
            c2 == AddXp(c1, XP_PER_GAME)
        IN [chat |-> c2, events |-> <<Event("PLAY", user_id)>>, success |-> TRUE]

\* is_night_time with the else-branch test requiring both comparisons.
IsNightTimeInNoWrap(current_hour, night_start, night_end) ==
    IF night_start < night_end
    THEN night_start <= current_hour /\ current_hour < night_end
    ELSE current_hour >= night_start /\ current_hour < night_end

\* is_night_time, with the wall-clock hour and the night window as arguments.
IsNightTimeIn(current_hour, night_start, night_end) ==
    IF night_start < night_end
    THEN night_start <= current_hour /\ current_hour < night_end
    ELSE current_hour >= night_start \/ current_hour < night_end

IsNightTime(current_hour) ==
    IsNightTimeIn(current_hour, NIGHT_START_HOUR, NIGHT_END_HOUR)

\* check_sleep_status restoring energy on every check outside the night.
CheckSleepStatusRestoreAlways(c, current_hour) ==
    LET is_night == IsNightTime(current_hour)
    IN IF is_night /\ ~c.is_sleeping
       THEN [c EXCEPT !.is_sleeping = TRUE]
       ELSE IF ~is_night
       THEN LET new_energy == Min(100, c.energy + 50)
            IN UpdateStats([c EXCEPT !.is_sleeping = FALSE], [energy |-> new_energy])
       ELSE c

CheckSleepStatus(c, current_hour) ==
    LET is_night == IsNightTime(current_hour)
    IN IF is_night /\ ~c.is_sleeping
       THEN [c EXCEPT !.is_sleeping = TRUE]
       ELSE IF ~is_night /\ c.is_sleeping
       THEN LET new_energy == Min(100, c.energy + 50)
            IN UpdateStats([c EXCEPT !.is_sleeping = FALSE], [energy |-> new_energy])
       ELSE c

DisturbAtNight(c, user_id) ==
    IF ~c.is_sleeping THEN [chat |-> c, events |-> <<>>, disturbed |-> FALSE]
    ELSE
        LET new_health == Max(0, c.health - 15)
            new_mood == Max(0, c.mood - 20)
            c1 == UpdateStats(c, [health |-> new_health, mood |-> new_mood])
        IN [chat |-> c1, events |-> <<Event("NIGHT_DISTURB", user_id)>>,
            disturbed |-> TRUE]

----------------------------------------------------------------------------
(* services/evolution.py *)

stage_order == <<"EGG", "BABY", "TEEN", "ADULT", "ANCIENT">>

STAGE_THRESHOLDS ==
    [EGG |-> 0, BABY |-> 100, TEEN |-> 500, ADULT |-> 1500, ANCIENT |-> 5000]

\* list.index: position of the stage in stage_order
StageIndex(stage) == CHOOSE i \in 1..Len(stage_order) : stage_order[i] = stage

GetNextStageWrap(current_stage) ==
    LET current_index == StageIndex(current_stage)
    IN stage_order[(current_index % Len(stage_order)) + 1]

GetNextStage(current_stage) ==
    LET current_index == StageIndex(current_stage)
    IN IF current_index < Len(stage_order)
       THEN stage_order[current_index + 1]
       ELSE "None"

DeterminePetTypeCyberFirst(c) ==
    LET total_interactions == c.cursing_count + c.meme_count + c.code_count + c.caps_count
    IN IF c.code_count >= 50 THEN "CYBER_BOT"
       ELSE IF c.cursing_count = 0 /\ total_interactions >= 200 THEN "ANGEL"
       ELSE IF c.meme_count >= 50 THEN "MEME_CAT"
       ELSE IF c.caps_count >= 100 /\ c.cursing_count >= 30 THEN "TROLL"
       ELSE IF c.cursing_count >= 50 THEN "GOBLIN"
       ELSE "NORMAL"

DeterminePetTypeAngel100(c) ==
    LET total_interactions == c.cursing_count + c.meme_count + c.code_count + c.caps_count
    IN IF c.cursing_count = 0 /\ total_interactions >= 100 THEN "ANGEL"
       ELSE IF c.code_count >= 50 THEN "CYBER_BOT"
       ELSE IF c.meme_count >= 50 THEN "MEME_CAT"
       ELSE IF c.caps_count >= 100 /\ c.cursing_count >= 30 THEN "TROLL"
       ELSE IF c.cursing_count >= 50 THEN "GOBLIN"
       ELSE "NORMAL"

DeterminePetType(c) ==
    LET total_interactions == c.cursing_count + c.meme_count + c.code_count + c.caps_count
    IN IF c.cursing_count = 0 /\ total_interactions >= 200 THEN "ANGEL"
       ELSE IF c.code_count >= 50 THEN "CYBER_BOT"
       ELSE IF c.meme_count >= 50 THEN "MEME_CAT"
       ELSE IF c.caps_count >= 100 /\ c.cursing_count >= 30 THEN "TROLL"
       ELSE IF c.cursing_count >= 50 THEN "GOBLIN"
       ELSE "NORMAL"

NotEvolved(c) ==
    [chat |-> c, events |-> <<>>, evolved |-> FALSE,
     new_stage |-> "None", new_type |-> "None"]

CheckAndEvolveRetype(c) ==
    IF ~c.is_alive THEN NotEvolved(c)
    ELSE
        LET next_stage == GetNextStage(c.pet_stage)
        IN IF next_stage = "None" THEN NotEvolved(c)
           ELSE IF c.xp < STAGE_THRESHOLDS[next_stage] THEN NotEvolved(c)
           ELSE
               LET new_type == DeterminePetType(c)
               IN [chat |-> Evolve(c, next_stage, new_type),
                   events |-> <<Event("EVOLUTION", "None")>>,
                   evolved |-> TRUE, new_stage |-> next_stage, new_type |-> new_type]

CheckAndEvolveAbove(c) ==
    IF ~c.is_alive THEN NotEvolved(c)
    ELSE
        LET next_stage == GetNextStage(c.pet_stage)
        IN IF next_stage = "None" THEN NotEvolved(c)
           ELSE IF c.xp <= STAGE_THRESHOLDS[next_stage] THEN NotEvolved(c)
           ELSE
               LET new_type == IF next_stage = "TEEN" THEN DeterminePetType(c)
                               ELSE c.pet_type
               IN [chat |-> Evolve(c, next_stage, new_type),
                   events |-> <<Event("EVOLUTION", "None")>>,
                   evolved |-> TRUE, new_stage |-> next_stage, new_type |-> new_type]

\* check_and_evolve going straight to the highest stage the xp has reached.
CheckAndEvolveJump(c) ==
    IF ~c.is_alive THEN NotEvolved(c)
    ELSE
        LET next_stage == GetNextStage(c.pet_stage)
        IN IF next_stage = "None" THEN NotEvolved(c)
           ELSE IF c.xp < STAGE_THRESHOLDS[next_stage] THEN NotEvolved(c)
           ELSE
               LET reached == { i \in 1..Len(stage_order) :
                                   STAGE_THRESHOLDS[stage_order[i]] <= c.xp }
                   top == stage_order[CHOOSE i \in reached :
                                         \A j \in reached : j <= i]
                   new_type == IF StageIndex(c.pet_stage) < StageIndex("TEEN")
                                  /\ StageIndex(top) >= StageIndex("TEEN")
                               THEN DeterminePetType(c)
                               ELSE c.pet_type
               IN [chat |-> Evolve(c, top, new_type),
                   events |-> <<Event("EVOLUTION", "None")>>,
                   evolved |-> TRUE, new_stage |-> top, new_type |-> new_type]

CheckAndEvolve(c) ==
    IF ~c.is_alive THEN NotEvolved(c)
    ELSE
        LET next_stage == GetNextStage(c.pet_stage)
        IN IF next_stage = "None" THEN NotEvolved(c)
           ELSE IF c.xp < STAGE_THRESHOLDS[next_stage] THEN NotEvolved(c)
           ELSE
               LET new_type == IF next_stage = "TEEN" THEN DeterminePetType(c)
                               ELSE c.pet_type
               IN [chat |-> Evolve(c, next_stage, new_type),
                   events |-> <<Event("EVOLUTION", "None")>>,
                   evolved |-> TRUE, new_stage |-> next_stage, new_type |-> new_type]

----------------------------------------------------------------------------
(* services/events.py *)

\* random.random() draws, in hundredths: for the overall gate and for the
\* chosen kind's own gate, each threshold with a value past it
GateDraws == {0, 30, 31}
KindDraws == {15, 16, 20, 21, 25, 26}

EventKinds == {"Mysterious Box", "Visitor", "Weather Change"}

\* RandomEvent.probability of each registered kind, in hundredths
EventProbability(kind) ==
    CASE kind = "Mysterious Box" -> 20
      [] kind = "Visitor" -> 15
      [] kind = "Weather Change" -> 25

\* number of entries of each kind's outcome table
OutcomeCount(kind) ==
    CASE kind = "Mysterious Box" -> 5
      [] kind = "Visitor" -> 3
      [] kind = "Weather Change" -> 4

NoEvent(c) == [chat |-> c, events |-> <<>>, event |-> "None"]

\* FindBoxEvent.execute with random.choice picking outcome k
FindBoxExecute(c, k) ==
    LET c1 == CASE k = 1 -> UpdateStats(c, [hunger |-> Min(100, c.hunger + 50)])
                [] k = 2 -> UpdateStats(c, [energy |-> Min(100, c.energy + 30)])
                [] k = 3 -> UpdateStats(c, [mood |-> Min(100, c.mood + 40)])
                [] k = 4 -> UpdateStats(c, [health |-> Max(0, c.health - 20)])
                [] k = 5 -> AddXp(c, 50)
    IN [chat |-> c1, events |-> <<Event("RANDOM_EVENT", "None")>>,
        event |-> "Mysterious Box"]

\* VisitorEvent.execute with random.choice picking visitor k
VisitorExecute(c, k) ==
    LET c1 == CASE k = 1 -> UpdateStats(c, [hunger |-> 100, mood |-> 100,
                                            energy |-> 100, health |-> 100])
                [] k = 2 -> UpdateStats(c, [hunger |-> Max(0, c.hunger - 30)])
                [] k = 3 -> UpdateStats(c, [mood |-> Min(100, c.mood + 50)])
    IN [chat |-> c1, events |-> <<Event("RANDOM_EVENT", "None")>>,
        event |-> "Visitor"]

\* WeatherEvent.execute with random.choice picking weather k
WeatherExecute(c, k) ==
    LET c1 == CASE k = 1 -> UpdateStats(c, [mood |-> Min(100, c.mood + 20)])
                [] k = 2 -> UpdateStats(c, [mood |-> Max(0, c.mood - 10)])
                [] k = 3 -> UpdateStats(c, [mood |-> Max(0, c.mood - 20),
                                            energy |-> Max(0, c.energy - 15)])
                [] k = 4 -> UpdateStats(c, [mood |-> Min(100, c.mood + 15)])
    IN [chat |-> c1, events |-> <<Event("RANDOM_EVENT", "None")>>,
        event |-> "Weather Change"]

\* trigger_random_event without the chosen kind's own gate.
TriggerRandomEventOneGate(c, r1, kind, r2, k) ==
    IF ~c.is_alive \/ c.is_sleeping THEN NoEvent(c)
    ELSE IF r1 > 30 THEN NoEvent(c)
    ELSE CASE kind = "Mysterious Box" -> FindBoxExecute(c, k)
           [] kind = "Visitor" -> VisitorExecute(c, k)
           [] kind = "Weather Change" -> WeatherExecute(c, k)

\* EventManager.trigger_random_event: r1, r2 the two random.random() draws,
\* kind the event random.choice picks, k the outcome its execute picks.
TriggerRandomEvent(c, r1, kind, r2, k) ==
    IF ~c.is_alive \/ c.is_sleeping THEN NoEvent(c)
    ELSE IF r1 > 30 THEN NoEvent(c)
    ELSE IF r2 > EventProbability(kind) THEN NoEvent(c)
    ELSE CASE kind = "Mysterious Box" -> FindBoxExecute(c, k)
           [] kind = "Visitor" -> VisitorExecute(c, k)
           [] kind = "Weather Change" -> WeatherExecute(c, k)

----------------------------------------------------------------------------
(* What a handler or job run reports *)

Users == {"u1"}

\* datetime.utcnow().hour as seen by a sleep check
Hours == {0, 6, 7, 12, 23}

Result(op) ==
    [op |-> op, success |-> FALSE, disturbed |-> FALSE,
     is_alive |-> FALSE, is_critical |-> FALSE, last_tick_stamped |-> FALSE,
     evolved |-> FALSE, new_stage |-> "None", new_type |-> "None",
     event |-> "None"]

\* No is_night_time call observed: the configured window, nothing returned.
NightIdle ==
    [current_hour |-> 0, night_start |-> NIGHT_START_HOUR,
     night_end |-> NIGHT_END_HOUR, returned |-> FALSE, is_night |-> FALSE]

\* No trigger_random_event call observed.
DrawIdle == [r1 |-> 0, kind |-> "None", r2 |-> 0, k |-> 1]

\* No tick job and no /feed handler in flight.
RaceIdle ==
    [hour |-> 0, start |-> NewChat,
     tick_pc |-> "idle", tick_chat |-> NewChat,
     feed_pc |-> "idle", feed_chat |-> NewChat]

\* No handler in flight.
FlightIdle == [handler |-> "None", user_id |-> "None", obj |-> NewChat, calls |-> <<>>]

\* The events table not followed: no row kept.
EventsIdle == [kept |-> FALSE, rows |-> <<>>]

\* The table holding only the rows of the latest operation.
LogLatestOnly(e, new_rows) ==
    IF e.kept THEN [e EXCEPT !.rows = new_rows] ELSE e

\* EventCRUD.create for each new row: session.add and commit put the rows
\* after the ones the table holds.
Log(e, new_rows) ==
    IF e.kept THEN [e EXCEPT !.rows = @ \o new_rows] ELSE e

\* No scheduler pass in flight.
BatchIdle ==
    [job |-> "None", hour |-> 0, start |-> <<>>, rows |-> <<>>,
     selected |-> <<>>, pos |-> 0, entered |-> <<>>, raised |-> <<>>,
     failed_call |-> <<>>, notices |-> <<>>]

----------------------------------------------------------------------------
(* bot/handlers/commands.py *)

\* /start: insert the row if missing, revive the pet if it is dead.
CmdStart ==
    /\ clock < MaxSteps
    /\ clock' = clock + 1
    /\ has_chat' = TRUE
    /\ LET c == IF has_chat THEN chat ELSE NewChat
       IN IF ~c.is_alive
          THEN /\ chat' = RevivePet(c)
               /\ appended' = <<Event("BIRTH", "None")>>
               /\ last' = [Result("cmd_start") EXCEPT !.success = TRUE]
          ELSE /\ chat' = c
               /\ appended' = <<>>
               /\ last' = Result("cmd_start")
    /\ UNCHANGED <<users, offers>>
    /\ UNCHANGED <<night, draw, race, batch, flight>>
    /\ events' = Log(events, appended')

\* /feed: a sleeping pet is disturbed instead of fed.
CmdFeed(user_id) ==
    /\ clock < MaxSteps
    /\ has_chat
    /\ clock' = clock + 1
    /\ LET d == IF chat.is_sleeping THEN DisturbAtNight(chat, user_id)
                ELSE [chat |-> chat, events |-> <<>>, disturbed |-> FALSE]
       IN IF d.disturbed
          THEN /\ chat' = d.chat
               /\ users' = IncrementStat(users, user_id, "night_disturb_count", 1)
               /\ appended' = d.events
               /\ last' = [Result("cmd_feed") EXCEPT !.disturbed = TRUE]
          ELSE LET r == Feed(chat, user_id)
               IN /\ chat' = r.chat
                  /\ users' = IF r.success
                              THEN IncrementStat(
                                       IncrementStat(users, user_id, "feed_count", 1),
                                       user_id, "karma_points", 5)
                              ELSE users
                  /\ appended' = r.events
                  /\ last' = [Result("cmd_feed") EXCEPT !.success = r.success]
    /\ UNCHANGED <<has_chat, offers>>
    /\ UNCHANGED <<night, draw, race, batch, flight>>
    /\ events' = Log(events, appended')

\* /play: a sleeping pet is disturbed instead of played with.
CmdPlay(user_id) ==
    /\ clock < MaxSteps
    /\ has_chat
    /\ clock' = clock + 1
    /\ LET d == IF chat.is_sleeping THEN DisturbAtNight(chat, user_id)
                ELSE [chat |-> chat, events |-> <<>>, disturbed |-> FALSE]
       IN IF d.disturbed
          THEN /\ chat' = d.chat
               /\ users' = IncrementStat(users, user_id, "night_disturb_count", 1)
               /\ appended' = d.events
               /\ last' = [Result("cmd_play") EXCEPT !.disturbed = TRUE]
          ELSE LET r == Play(chat, user_id)
               IN /\ chat' = r.chat
                  /\ users' = IF r.success
                              THEN IncrementStat(
                                       IncrementStat(users, user_id, "play_count", 1),
                                       user_id, "karma_points", 3)
                              ELSE users
                  /\ appended' = r.events
                  /\ last' = [Result("cmd_play") EXCEPT !.success = r.success]
    /\ UNCHANGED <<has_chat, offers>>
    /\ UNCHANGED <<night, draw, race, batch, flight>>
    /\ events' = Log(events, appended')

\* /gamble showing the keyboard to every living pet, hungry or not.
CmdGambleAnyHunger ==
    /\ clock < MaxSteps
    /\ has_chat
    /\ LET offered == chat.is_alive
       IN /\ offered => offers < MaxOffers
          /\ offers' = IF offered THEN offers + 1 ELSE offers
          /\ last' = [Result("cmd_gamble") EXCEPT !.success = offered]
    /\ clock' = clock + 1
    /\ appended' = <<>>
    /\ UNCHANGED <<has_chat, chat, users>>
    /\ UNCHANGED <<night, draw, race, batch, flight>>
    /\ events' = Log(events, appended')

\* /gamble: shows the keyboard when the pet is alive and hunger >= 30.
CmdGamble ==
    /\ clock < MaxSteps
    /\ has_chat
    /\ LET offered == chat.is_alive /\ ~(chat.hunger < 30)
       IN /\ offered => offers < MaxOffers
          /\ offers' = IF offered THEN offers + 1 ELSE offers
          /\ last' = [Result("cmd_gamble") EXCEPT !.success = offered]
    /\ clock' = clock + 1
    /\ appended' = <<>>
    /\ UNCHANGED <<has_chat, chat, users>>
    /\ UNCHANGED <<night, draw, race, batch, flight>>
    /\ events' = Log(events, appended')

----------------------------------------------------------------------------
(* bot/handlers/callbacks.py *)

\* callback_gamble_play with a loss costing 10 karma.
CallbackGamblePlayLossKarma10(user_id, won) ==
    /\ clock < MaxSteps
    /\ offers > 0
    /\ clock' = clock + 1
    /\ IF ~has_chat \/ ~chat.is_alive
       THEN /\ last' = Result("gamble_play")
            /\ appended' = <<>>
            /\ UNCHANGED <<chat, users, offers>>
       ELSE /\ offers' = offers - 1
            /\ last' = [Result("gamble_play") EXCEPT !.success = TRUE]
            /\ IF won
               THEN /\ chat' = UpdateStats(chat, [hunger |-> Min(100, chat.hunger + 50)])
                    /\ users' = IncrementStat(
                                    IncrementStat(users, user_id, "gamble_wins", 1),
                                    user_id, "karma_points", 10)
                    /\ appended' = <<Event("GAMBLE_WIN", user_id)>>
               ELSE /\ chat' = UpdateStats(chat, [hunger |-> Max(0, chat.hunger - 30)])
                    /\ users' = IncrementStat(
                                    IncrementStat(users, user_id, "gamble_losses", 1),
                                    user_id, "karma_points", -10)
                    /\ appended' = <<Event("GAMBLE_LOSS", user_id)>>
    /\ UNCHANGED has_chat
    /\ UNCHANGED <<night, draw, race, batch, flight>>
    /\ events' = Log(events, appended')

\* The "gamble_play" button of a shown keyboard; won = random.choice([True, False]).
CallbackGamblePlay(user_id, won) ==
    /\ clock < MaxSteps
    /\ offers > 0
    /\ clock' = clock + 1
    /\ IF ~has_chat \/ ~chat.is_alive
       THEN /\ last' = Result("gamble_play")
            /\ appended' = <<>>
            /\ UNCHANGED <<chat, users, offers>>
       ELSE /\ offers' = offers - 1
            /\ last' = [Result("gamble_play") EXCEPT !.success = TRUE]
            /\ IF won
               THEN /\ chat' = UpdateStats(chat, [hunger |-> Min(100, chat.hunger + 50)])
                    /\ users' = IncrementStat(
                                    IncrementStat(users, user_id, "gamble_wins", 1),
                                    user_id, "karma_points", 10)
                    /\ appended' = <<Event("GAMBLE_WIN", user_id)>>
               ELSE /\ chat' = UpdateStats(chat, [hunger |-> Max(0, chat.hunger - 30)])
                    /\ users' = IncrementStat(
                                    IncrementStat(users, user_id, "gamble_losses", 1),
                                    user_id, "karma_points", -5)
                    /\ appended' = <<Event("GAMBLE_LOSS", user_id)>>
    /\ UNCHANGED has_chat
    /\ UNCHANGED <<night, draw, race, batch, flight>>
    /\ events' = Log(events, appended')

\* The "gamble_cancel" button: the keyboard message is replaced.
CallbackGambleCancel ==
    /\ clock < MaxSteps
    /\ offers > 0
    /\ clock' = clock + 1
    /\ offers' = offers - 1
    /\ last' = Result("gamble_cancel")
    /\ appended' = <<>>
    /\ UNCHANGED <<has_chat, chat, users>>
    /\ UNCHANGED <<night, draw, race, batch, flight>>
    /\ events' = Log(events, appended')

----------------------------------------------------------------------------
(* bot/handlers/messages.py *)

\* A group text message; bad, caps, code are contains_bad_words(text),
\* is_mostly_caps(text) and contains_code(text).
HandleGroupMessage(user_id, bad, caps, code) ==
    /\ clock < MaxSteps
    /\ has_chat
    /\ clock' = clock + 1
    /\ appended' = <<>>
    /\ IF ~chat.is_alive
       THEN /\ last' = Result("group_message")
            /\ UNCHANGED <<chat, users>>
       ELSE LET c1 == AddXp(chat, XP_PER_MESSAGE)
                c2 == UpdateStats(c1, [hunger |-> Min(100, c1.hunger + 1)])
                c3 == IF bad
                      THEN UpdateStats(IncrementBehaviorCounter(c2, "cursing_count", 1),
                                       [mood |-> Max(0, c2.mood - 2)])
                      ELSE c2
                c4 == IF caps
                      THEN UpdateStats(IncrementBehaviorCounter(c3, "caps_count", 1),
                                       [mood |-> Max(0, c3.mood - 1)])
                      ELSE c3
                c5 == IF code
                      THEN IncrementBehaviorCounter(c4, "code_count", 1)
                      ELSE c4
            IN /\ chat' = c5
               /\ users' = IncrementStat(GetOrCreateUser(users, user_id),
                                         user_id, "message_count", 1)
               /\ last' = [Result("group_message") EXCEPT !.success = TRUE]
    /\ UNCHANGED <<has_chat, offers>>
    /\ UNCHANGED <<night, draw, race, batch, flight>>
    /\ events' = Log(events, appended')

\* A sticker counts as a meme.
HandleSticker ==
    /\ clock < MaxSteps
    /\ has_chat
    /\ clock' = clock + 1
    /\ appended' = <<>>
    /\ IF ~chat.is_alive
       THEN /\ last' = Result("sticker")
            /\ UNCHANGED chat
       ELSE LET c1 == IncrementBehaviorCounter(chat, "meme_count", 1)
            IN /\ chat' = UpdateStats(c1, [mood |-> Min(100, c1.mood + 2)])
               /\ last' = [Result("sticker") EXCEPT !.success = TRUE]
    /\ UNCHANGED <<has_chat, users, offers>>
    /\ UNCHANGED <<night, draw, race, batch, flight>>
    /\ events' = Log(events, appended')

\* A photo; caption is "none", "short" (under 50 characters) or "long",
\* bad and code are contains_bad_words / contains_code of the caption.
HandlePhoto(caption, bad, code) ==
    /\ clock < MaxSteps
    /\ has_chat
    /\ caption = "none" => (~bad /\ ~code)
    /\ clock' = clock + 1
    /\ appended' = <<>>
    /\ IF ~chat.is_alive
       THEN /\ last' = Result("photo")
            /\ UNCHANGED chat
       ELSE LET c1 == IF caption # "none" /\ bad
                      THEN IncrementBehaviorCounter(chat, "cursing_count", 1)
                      ELSE chat
                c2 == IF caption # "none" /\ code
                      THEN IncrementBehaviorCounter(c1, "code_count", 1)
                      ELSE c1
                c3 == IF caption # "long"
                      THEN LET m == IncrementBehaviorCounter(c2, "meme_count", 1)
                           IN UpdateStats(m, [mood |-> Min(100, m.mood + 1)])
                      ELSE c2
            IN /\ chat' = c3
               /\ last' = [Result("photo") EXCEPT !.success = TRUE]
    /\ UNCHANGED <<has_chat, users, offers>>
    /\ UNCHANGED <<night, draw, race, batch, flight>>
    /\ events' = Log(events, appended')

----------------------------------------------------------------------------
(* services/scheduler.py *)

\* tick_all_pets with the decay run before the sleep check.
TickAllPetsDecayFirst(current_hour) ==
    /\ clock < MaxSteps
    /\ has_chat /\ chat.is_alive
    /\ clock' = clock + 1
    /\ LET t == TickStats(chat)
           c1 == IF t.is_alive THEN CheckSleepStatus(t.chat, current_hour) ELSE t.chat
           e == IF t.is_alive THEN CheckAndEvolve(c1) ELSE NotEvolved(c1)
       IN /\ chat' = e.chat
          /\ appended' = t.events \o e.events
          /\ last' = [Result("tick") EXCEPT
                         !.is_alive = t.is_alive, !.is_critical = t.is_critical,
                         !.last_tick_stamped = t.last_tick_stamped,
                         !.evolved = e.evolved, !.new_stage = e.new_stage,
                         !.new_type = e.new_type]
    /\ UNCHANGED <<has_chat, users, offers>>
    /\ UNCHANGED <<night, draw, race, batch, flight>>
    /\ events' = Log(events, appended')

\* tick_all_pets, the body run for this chat when its pet is selected (alive):
\* sleep check, tick, and the evolution check if the pet is still alive.
TickAllPets(current_hour) ==
    /\ clock < MaxSteps
    /\ has_chat /\ chat.is_alive
    /\ clock' = clock + 1
    /\ LET c1 == CheckSleepStatus(chat, current_hour)
           t == TickStats(c1)
           e == IF t.is_alive THEN CheckAndEvolve(t.chat) ELSE NotEvolved(t.chat)
       IN /\ chat' = e.chat
          /\ appended' = t.events \o e.events
          /\ last' = [Result("tick") EXCEPT
                         !.is_alive = t.is_alive, !.is_critical = t.is_critical,
                         !.last_tick_stamped = t.last_tick_stamped,
                         !.evolved = e.evolved, !.new_stage = e.new_stage,
                         !.new_type = e.new_type]
    /\ UNCHANGED <<has_chat, users, offers>>
    /\ UNCHANGED <<night, draw, race, batch, flight>>
    /\ events' = Log(events, appended')

\* trigger_random_events, the body run for this chat when its pet is selected
\* (alive and awake).
TriggerRandomEvents(r1, kind, r2, k) ==
    /\ clock < MaxSteps
    /\ has_chat /\ chat.is_alive /\ ~chat.is_sleeping
    /\ clock' = clock + 1
    /\ LET r == TriggerRandomEvent(chat, r1, kind, r2, k)
       IN /\ chat' = r.chat
          /\ appended' = r.events
          /\ last' = [Result("random_event") EXCEPT
                         !.success = (r.event # "None"), !.event = r.event]
    /\ UNCHANGED <<has_chat, users, offers>>
    /\ UNCHANGED <<night, draw, race, batch, flight>>
    /\ events' = Log(events, appended')

\* check_sleep_all, the body run for this chat when its pet is selected (alive).
CheckSleepAll(current_hour) ==
    /\ clock < MaxSteps
    /\ has_chat /\ chat.is_alive
    /\ clock' = clock + 1
    /\ chat' = CheckSleepStatus(chat, current_hour)
    /\ appended' = <<>>
    /\ last' = Result("check_sleep")
    /\ UNCHANGED <<has_chat, users, offers>>
    /\ UNCHANGED <<night, draw, race, batch, flight>>
    /\ events' = Log(events, appended')

----------------------------------------------------------------------------------------------------------------------------------------
(* The states the bot starts in: an empty chats table, or a row a previous *)
(* run left behind.                                                        *)

\* <<hunger, mood, energy, health>>, <<stage, type, xp, cursing, meme, code, caps>>
\* of a living pet
AliveProfiles ==
    { << <<100, 100, 100, 100>>, <<"EGG", "NORMAL", 0, 0, 0, 0, 0>> >>,
      << <<5, 1, 5, 5>>,         <<"EGG", "NORMAL", 99, 0, 0, 0, 0>> >>,
      << <<100, 100, 100, 100>>, <<"EGG", "NORMAL", 1500, 0, 0, 50, 0>> >>,
      << <<90, 97, 100, 100>>,   <<"BABY", "NORMAL", 499, 0, 60, 60, 80>> >>,
      << <<20, 21, 20, 15>>,     <<"BABY", "NORMAL", 500, 50, 0, 0, 100>> >>,
      << <<35, 50, 15, 20>>,     <<"TEEN", "NORMAL", 1500, 0, 0, 50, 0>> >>,
      << <<90, 97, 100, 100>>,   <<"TEEN", "ANGEL", 1500, 1, 100, 100, 0>> >>,
      << <<90, 97, 100, 100>>,   <<"ADULT", "GOBLIN", 4999, 50, 49, 0, 0>> >>,
      << <<35, 50, 15, 20>>,     <<"ANCIENT", "ANGEL", 5000, 0, 100, 100, 0>> >> }

\* the same of a dead pet (health 0)
DeadProfiles ==
    { << <<15, 16, 15, 0>>, <<"BABY", "NORMAL", 500, 50, 0, 0, 100>> >>,
      << <<0, 0, 0, 0>>,    <<"ADULT", "GOBLIN", 4999, 50, 49, 0, 0>> >> }

StoredChat(v, p, sleeping) ==
    [pet_stage |-> p[1], pet_type |-> p[2],
     hunger |-> v[1], mood |-> v[2], energy |-> v[3], health |-> v[4],
     xp |-> p[3], level |-> (p[3] \div 100) + 1,
     is_alive |-> TRUE, is_sleeping |-> sleeping,
     cursing_count |-> p[4], meme_count |-> p[5], code_count |-> p[6],
     caps_count |-> p[7],
     last_interaction |-> IF v = <<100, 100, 100, 100>> /\ p[3] = 0
                          THEN "None" ELSE "utcnow",
     death_at |-> "None"]

StoredDeadChat(v, p, sleeping) ==
    [StoredChat(v, p, sleeping) EXCEPT !.is_alive = FALSE, !.death_at = "utcnow"]

StoredChats ==
    { StoredChat(a[1], a[2], s) : a \in AliveProfiles, s \in BOOLEAN }
    \cup
    { StoredDeadChat(d[1], d[2], s) : d \in DeadProfiles, s \in BOOLEAN }

Init ==
    /\ \/ has_chat = FALSE /\ chat = NewChat
       \/ has_chat = TRUE /\ chat \in StoredChats
    /\ users = [u \in Users |-> NewUser]
    /\ offers = 0
    /\ clock = 0
    /\ last = Result("start")
    /\ appended = <<>>
    /\ night = NightIdle
    /\ draw = DrawIdle
    /\ race = RaceIdle
    /\ batch = BatchIdle
    /\ flight = FlightIdle
    /\ events = EventsIdle

Next ==
    \/ CmdStart
    \/ \E u \in Users : CmdFeed(u)
    \/ \E u \in Users : CmdPlay(u)
    \/ CmdGamble
    \/ \E u \in Users, won \in BOOLEAN : CallbackGamblePlay(u, won)
    \/ CallbackGambleCancel
    \/ \E u \in Users, bad \in BOOLEAN, caps \in BOOLEAN, code \in BOOLEAN :
          HandleGroupMessage(u, bad, caps, code)
    \/ HandleSticker
    \/ \E caption \in {"none", "short", "long"}, bad \in BOOLEAN, code \in BOOLEAN :
          HandlePhoto(caption, bad, code)
    \/ \E h \in Hours : TickAllPets(h)
    \/ \E r1 \in GateDraws, kind \in EventKinds, r2 \in KindDraws :
          \E k \in IF r1 > 30 \/ r2 > EventProbability(kind)
                   THEN {1} ELSE 1..OutcomeCount(kind) :
             TriggerRandomEvents(r1, kind, r2, k)
    \/ \E h \in Hours : CheckSleepAll(h)

Spec == Init /\ [][Next]_vars

----------------------------------------------------------------------------
(* check_and_evolve on its own, over stored rows around every threshold    *)
(* and over the behaviour counters around every type threshold.            *)

XpSamples == {0, 99, 100, 499, 500, 1499, 1500, 4999, 5000}
CursingSamples == {0, 1, 29, 30, 49, 50}
MemeSamples == {0, 49, 50, 60, 200}
CodeSamples == {0, 49, 50, 60, 200}
CapsSamples == {0, 79, 80, 99, 100, 200}

EvolveInputs ==
    { [NewChat EXCEPT !.pet_stage = st, !.pet_type = ty, !.xp = x,
                      !.level = (x \div 100) + 1, !.is_alive = alive,
                      !.meme_count = 60, !.code_count = 60] :
        st \in PetStage, ty \in {"NORMAL", "MEME_CAT"}, x \in XpSamples,
        alive \in BOOLEAN }
    \cup
    { [NewChat EXCEPT !.pet_stage = "BABY", !.xp = 500, !.level = 6,
                      !.cursing_count = cu, !.meme_count = me,
                      !.code_count = co, !.caps_count = ca] :
        cu \in CursingSamples, me \in MemeSamples, co \in CodeSamples,
        ca \in CapsSamples }

InitEvolve ==
    /\ has_chat = TRUE
    /\ chat \in EvolveInputs
    /\ users = [u \in Users |-> NewUser]
    /\ offers = 0
    /\ clock = 0
    /\ last = Result("start")
    /\ appended = <<>>
    /\ night = NightIdle
    /\ draw = DrawIdle
    /\ race = RaceIdle
    /\ batch = BatchIdle
    /\ flight = FlightIdle
    /\ events = EventsIdle

\* One call of EvolutionSystem.check_and_evolve on the stored row.
EvolutionCheck ==
    /\ clock < MaxSteps
    /\ has_chat
    /\ clock' = clock + 1
    /\ LET e == CheckAndEvolve(chat)
       IN /\ chat' = e.chat
          /\ appended' = e.events
          /\ last' = [Result("check_and_evolve") EXCEPT
                         !.evolved = e.evolved, !.new_stage = e.new_stage,
                         !.new_type = e.new_type]
    /\ UNCHANGED <<has_chat, users, offers>>
    /\ UNCHANGED <<night, draw, race, batch, flight>>
    /\ events' = Log(events, appended')

NextEvolve == EvolutionCheck

SpecEvolve == InitEvolve /\ [][NextEvolve]_vars

----------------------------------------------------------------------------
(* is_night_time on its own, over every clock hour and every configured    *)
(* night window (NIGHT_START_HOUR, NIGHT_END_HOUR in 0..23).               *)

InitNight ==
    /\ has_chat = FALSE
    /\ chat = NewChat
    /\ users = [u \in Users |-> NewUser]
    /\ offers = 0
    /\ clock = 0
    /\ last = Result("start")
    /\ appended = <<>>
    /\ night \in [current_hour : 0..23, night_start : 0..23, night_end : 0..23,
                  returned : {FALSE}, is_night : {FALSE}]
    /\ draw = DrawIdle
    /\ race = RaceIdle
    /\ batch = BatchIdle
    /\ flight = FlightIdle
    /\ events = EventsIdle

\* One call of PetLogic.is_night_time.
IsNightTimeCall ==
    /\ ~night.returned
    /\ night' = [night EXCEPT !.returned = TRUE,
                              !.is_night =
                     IsNightTimeIn(night.current_hour, night.night_start,
                                   night.night_end)]
    /\ UNCHANGED <<has_chat, chat, users, offers, clock, last, appended, draw, race,
                   batch, flight>>
    /\ UNCHANGED events

NextNight == IsNightTimeCall

SpecNight == InitNight /\ [][NextNight]_vars

----------------------------------------------------------------------------
(* trigger_random_event on its own, over stored rows and over draws on     *)
(* both sides of each gate.                                                *)

\* random.random() draws, in hundredths, around 0.3 and around each kind's
\* probability
FirstDraws == {0, 29, 30, 31}
SecondDraws == {14, 15, 16, 19, 20, 21, 24, 25, 26}

InitEvent ==
    /\ has_chat = TRUE
    /\ chat \in StoredChats
    /\ users = [u \in Users |-> NewUser]
    /\ offers = 0
    /\ clock = 0
    /\ last = Result("start")
    /\ appended = <<>>
    /\ night = NightIdle
    /\ \E r1 \in FirstDraws, kind \in EventKinds, r2 \in SecondDraws :
          \E k \in 1..OutcomeCount(kind) :
             draw = [r1 |-> r1, kind |-> kind, r2 |-> r2, k |-> k]
    /\ race = RaceIdle
    /\ batch = BatchIdle
    /\ flight = FlightIdle
    /\ events = EventsIdle

\* One call of EventManager.trigger_random_event on the stored row.
TriggerRandomEventCall ==
    /\ last.op = "start"
    /\ LET r == TriggerRandomEvent(chat, draw.r1, draw.kind, draw.r2, draw.k)
       IN /\ chat' = r.chat
          /\ appended' = r.events
          /\ last' = [Result("trigger_random_event") EXCEPT
                         !.success = (r.event # "None"), !.event = r.event]
    /\ UNCHANGED <<has_chat, users, offers, clock, night, draw, race, batch, flight>>
    /\ events' = Log(events, appended')

NextEvent == TriggerRandomEventCall

SpecEvent == InitEvent /\ [][NextEvent]_vars

----------------------------------------------------------------------------
(* One tick job and one /feed handler on the same chat, step by step.      *)
(* Each runs in its own session: it loads the row once into its own Chat   *)
(* object, computes from that object and writes columns with UPDATE (the   *)
(* object follows its own writes; add_xp ends with session.refresh).  A    *)
(* step is what runs between two awaits that reach the database.           *)

\* The row after an UPDATE that sets the named columns from a session's object.
WriteColumns(row, obj, columns) ==
    [f \in DOMAIN row |-> IF f \in columns THEN obj[f] ELSE row[f]]

InitRace ==
    /\ has_chat = TRUE
    /\ chat \in StoredChats
    /\ users = [u \in Users |-> NewUser]
    /\ offers = 0
    /\ clock = 0
    /\ last = Result("start")
    /\ appended = <<>>
    /\ night = NightIdle
    /\ draw = DrawIdle
    /\ \E h \in Hours :
          race = [hour |-> h, start |-> chat,
                  tick_pc |-> "select", tick_chat |-> NewChat,
                  feed_pc |-> "get", feed_chat |-> NewChat]
    /\ batch = BatchIdle
    /\ flight = FlightIdle
    /\ events = EventsIdle

\* tick_all_pets: select(Chat).where(Chat.is_alive == True)
RaceTickSelect ==
    /\ race.tick_pc = "select"
    /\ race' = IF has_chat /\ chat.is_alive
               THEN [race EXCEPT !.tick_pc = "sleep", !.tick_chat = chat]
               ELSE [race EXCEPT !.tick_pc = "done"]
    /\ appended' = <<>>
    /\ UNCHANGED <<has_chat, chat, users, offers, clock, last, night, draw, batch, flight>>
    /\ events' = Log(events, appended')

\* tick_all_pets: check_sleep_status on the job's object
RaceTickSleepCheck ==
    /\ race.tick_pc = "sleep"
    /\ LET c == race.tick_chat
           is_night == IsNightTime(race.hour)
           c1 == CheckSleepStatus(c, race.hour)
           columns == IF is_night /\ ~c.is_sleeping THEN {"is_sleeping"}
                      ELSE IF ~is_night /\ c.is_sleeping
                      THEN {"is_sleeping", "energy", "last_interaction"}
                      ELSE {}
       IN /\ chat' = WriteColumns(chat, c1, columns)
          /\ race' = [race EXCEPT !.tick_pc = "decay", !.tick_chat = c1]
    /\ appended' = <<>>
    /\ UNCHANGED <<has_chat, users, offers, clock, last, night, draw, batch, flight>>
    /\ events' = Log(events, appended')

\* tick_all_pets: tick_stats on the job's object
RaceTickStats ==
    /\ race.tick_pc = "decay"
    /\ LET t == TickStats(race.tick_chat)
           columns == {"hunger", "mood", "energy", "health", "last_interaction"}
                      \cup (IF t.is_alive THEN {} ELSE {"is_alive", "death_at"})
       IN /\ chat' = WriteColumns(chat, t.chat, columns)
          /\ appended' = t.events
          /\ race' = [race EXCEPT !.tick_pc = IF t.is_alive THEN "evolve" ELSE "done",
                                  !.tick_chat = t.chat]
    /\ UNCHANGED <<has_chat, users, offers, clock, last, night, draw, batch, flight>>
    /\ events' = Log(events, appended')

\* tick_all_pets: check_and_evolve on the job's object
RaceTickEvolve ==
    /\ race.tick_pc = "evolve"
    /\ LET e == CheckAndEvolve(race.tick_chat)
           columns == IF e.evolved THEN {"pet_stage", "pet_type"} ELSE {}
       IN /\ chat' = WriteColumns(chat, e.chat, columns)
          /\ appended' = e.events
          /\ race' = [race EXCEPT !.tick_pc = "done", !.tick_chat = e.chat]
    /\ UNCHANGED <<has_chat, users, offers, clock, last, night, draw, batch, flight>>
    /\ events' = Log(events, appended')

\* cmd_feed: ChatCRUD.get
RaceFeedGet(user_id) ==
    /\ race.feed_pc = "get"
    /\ race' = IF has_chat
               THEN [race EXCEPT !.feed_pc = "apply", !.feed_chat = chat]
               ELSE [race EXCEPT !.feed_pc = "done"]
    /\ appended' = <<>>
    /\ UNCHANGED <<has_chat, chat, users, offers, clock, last, night, draw, batch, flight>>
    /\ events' = Log(events, appended')

\* cmd_feed: disturb_at_night on a sleeping pet, else feed up to its
\* update_stats
RaceFeedApply(user_id) ==
    /\ race.feed_pc = "apply"
    /\ LET c == race.feed_chat
       IN IF c.is_sleeping
          THEN LET d == DisturbAtNight(c, user_id)
               IN /\ chat' = WriteColumns(chat, d.chat,
                                          {"health", "mood", "last_interaction"})
                  /\ users' = IncrementStat(users, user_id, "night_disturb_count", 1)
                  /\ appended' = d.events
                  /\ race' = [race EXCEPT !.feed_pc = "done", !.feed_chat = d.chat]
          ELSE IF ~c.is_alive
          THEN /\ race' = [race EXCEPT !.feed_pc = "done"]
               /\ appended' = <<>>
               /\ UNCHANGED <<chat, users>>
          ELSE LET c1 == UpdateStats(c, [hunger |-> Min(100, c.hunger + 30),
                                         mood |-> Min(100, c.mood + 5)])
               IN /\ chat' = WriteColumns(chat, c1,
                                          {"hunger", "mood", "last_interaction"})
                  /\ race' = [race EXCEPT !.feed_pc = "add_xp", !.feed_chat = c1]
                  /\ appended' = <<>>
                  /\ UNCHANGED users
    /\ UNCHANGED <<has_chat, offers, clock, last, night, draw, batch, flight>>
    /\ events' = Log(events, appended')

\* cmd_feed: feed from its add_xp on (the xp is the one of the handler's
\* object, the object is refreshed after the commit), the FEED event and the
\* user's counters
RaceFeedAddXp(user_id) ==
    /\ race.feed_pc = "add_xp"
    /\ LET c == race.feed_chat
           c1 == AddXp(c, XP_PER_FEED)
           columns == {"xp"} \cup (IF c1.level # c.level THEN {"level"} ELSE {})
           row == WriteColumns(chat, c1, columns)
       IN /\ chat' = row
          /\ race' = [race EXCEPT !.feed_pc = "done", !.feed_chat = row]
    /\ users' = IncrementStat(IncrementStat(users, user_id, "feed_count", 1),
                              user_id, "karma_points", 5)
    /\ appended' = <<Event("FEED", user_id)>>
    /\ UNCHANGED <<has_chat, offers, clock, last, night, draw, batch, flight>>
    /\ events' = Log(events, appended')

NextRace ==
    \/ RaceTickSelect
    \/ RaceTickSleepCheck
    \/ RaceTickStats
    \/ RaceTickEvolve
    \/ \E u \in Users : RaceFeedGet(u)
    \/ \E u \in Users : RaceFeedApply(u)
    \/ \E u \in Users : RaceFeedAddXp(u)

SpecRace == InitRace /\ [][NextRace]_vars

----------------------------------------------------------------------------
(* One scheduler pass over the rows of several chats, pet by pet.  Any     *)
(* call of a pet's body may raise; what the body committed before stays.   *)

\* The chats tables a pass runs over: three rows each (chat ids 1..3).
BatchTables ==
    { << StoredChat(<<100, 100, 100, 100>>, <<"EGG", "NORMAL", 1500, 0, 0, 50, 0>>, FALSE),
         StoredChat(<<20, 21, 20, 15>>, <<"BABY", "NORMAL", 500, 50, 0, 0, 100>>, TRUE),
         StoredChat(<<35, 50, 15, 20>>, <<"TEEN", "NORMAL", 1500, 0, 0, 50, 0>>, FALSE) >>,
      << StoredChat(<<5, 1, 5, 5>>, <<"EGG", "NORMAL", 99, 0, 0, 0, 0>>, FALSE),
         StoredDeadChat(<<0, 0, 0, 0>>, <<"ADULT", "GOBLIN", 4999, 50, 49, 0, 0>>, TRUE),
         StoredChat(<<90, 97, 100, 100>>, <<"BABY", "NORMAL", 499, 0, 60, 60, 80>>, TRUE) >>,
      << StoredChat(<<24, 50, 50, 15>>, <<"BABY", "NORMAL", 500, 0, 60, 60, 80>>, FALSE),
         StoredChat(<<100, 100, 100, 100>>, <<"EGG", "NORMAL", 0, 0, 0, 0, 0>>, FALSE),
         StoredChat(<<90, 97, 100, 100>>, <<"ADULT", "GOBLIN", 4999, 50, 49, 0, 0>>, FALSE) >> }

BatchJobs == {"tick_all_pets", "trigger_random_events", "check_sleep_all"}

InitBatch ==
    /\ has_chat = FALSE
    /\ chat = NewChat
    /\ users = [u \in Users |-> NewUser]
    /\ offers = 0
    /\ clock = 0
    /\ last = Result("start")
    /\ appended = <<>>
    /\ night = NightIdle
    /\ draw = DrawIdle
    /\ race = RaceIdle
    /\ \E job \in BatchJobs, h \in {6, 12}, table \in BatchTables :
          batch = [job |-> job, hour |-> h, start |-> table, rows |-> table,
                   selected |-> <<>>, pos |-> 0,
                   entered |-> [i \in DOMAIN table |-> 0], raised |-> <<>>,
                   failed_call |-> [i \in DOMAIN table |-> "none"],
                   notices |-> <<>>]
    /\ flight = FlightIdle
    /\ events = EventsIdle

\* The pass a job's body has left behind after the body of one pet ended
\* with an exception that propagates out of the job.
AfterPetPropagate(b, id, raised) ==
    [b EXCEPT !.pos = IF raised THEN Len(b.selected) + 1 ELSE @ + 1,
              !.entered[id] = @ + 1,
              !.raised = IF raised THEN Append(@, id) ELSE @]

\* The for loop around the body of one pet: try: ... except Exception as e:
\* logger.error(...), then the next chat.
AfterPet(b, id, raised) ==
    [b EXCEPT !.pos = @ + 1,
              !.entered[id] = @ + 1,
              !.raised = IF raised THEN Append(@, id) ELSE @]

\* The ids of a table's rows a job's query returns, in table order.
SelectChats(job, rows) ==
    LET Wanted(i) == /\ rows[i].is_alive
                     /\ job = "trigger_random_events" => ~rows[i].is_sleeping
        ids == [i \in 1..Len(rows) |-> i]
    IN SelectSeq(ids, Wanted)

\* The job's select at the start of the pass.
BatchSelect ==
    /\ batch.job # "None" /\ batch.pos = 0
    /\ batch' = [batch EXCEPT !.selected = SelectChats(batch.job, batch.rows),
                              !.pos = 1]
    /\ UNCHANGED <<has_chat, chat, users, offers, clock, last, appended, night,
                   draw, race, flight>>
    /\ UNCHANGED events

\* A bot.send_message of a pass: what it was about, whether it failed, and
\* the row the pass had committed when it was sent.
Notice(id, kind, failed, row) ==
    [id |-> id, kind |-> kind, failed |-> failed, row |-> row]

\* A failing bot.send_message whose exception leaves the body of the pet.
SendMessageRaisesUncaught(send_fails) == send_fails

\* try: await self.bot.send_message(...) except Exception as e:
\* logger.error(...): whether an exception leaves the statement.
SendMessageRaises(send_fails) == FALSE

\* tick_all_pets, the body of the next selected pet; fail_at names the call
\* that raises ("none": no call raises), send_fails tells whether the bot's
\* send_message fails for this chat.
BatchTickPet(fail_at, send_fails) ==
    /\ batch.job = "tick_all_pets"
    /\ batch.pos \in 1..Len(batch.selected)
    /\ LET id == batch.selected[batch.pos]
           c == batch.rows[id]
           c1 == CheckSleepStatus(c, batch.hour)
           t == TickStats(c1)
           ticked == fail_at \notin {"check_sleep_status", "tick_stats"}
           kind1 == IF ~t.is_alive THEN "death"
                    ELSE IF t.is_critical THEN "critical" ELSE "None"
           sent1 == ticked /\ kind1 # "None"
           raised1 == sent1 /\ SendMessageRaises(send_fails)
           e == IF t.is_alive THEN CheckAndEvolve(t.chat) ELSE NotEvolved(t.chat)
           checked == ticked /\ ~raised1 /\ fail_at = "none"
           sent2 == checked /\ e.evolved
           raised2 == sent2 /\ SendMessageRaises(send_fails)
           row == IF fail_at = "check_sleep_status" THEN c
                  ELSE IF fail_at = "tick_stats" THEN c1
                  ELSE IF checked THEN e.chat
                  ELSE t.chat
           sent == (IF sent1 THEN <<Notice(id, kind1, send_fails, t.chat)>> ELSE <<>>)
                   \o (IF sent2 THEN <<Notice(id, "evolution", send_fails, e.chat)>>
                       ELSE <<>>)
       IN /\ fail_at = "check_and_evolve" => t.is_alive
          /\ batch' = AfterPet([batch EXCEPT !.rows[id] = row,
                                             !.failed_call[id] = fail_at,
                                             !.notices = @ \o sent],
                               id, fail_at # "none" \/ raised1 \/ raised2)
    /\ UNCHANGED <<has_chat, chat, users, offers, clock, last, appended, night,
                   draw, race, flight>>
    /\ UNCHANGED events

\* trigger_random_events, the body of the next selected pet.
BatchEventPet(raises, send_fails, r1, kind, r2, k) ==
    /\ batch.job = "trigger_random_events"
    /\ batch.pos \in 1..Len(batch.selected)
    /\ LET id == batch.selected[batch.pos]
           c == batch.rows[id]
           r == IF raises THEN NoEvent(c) ELSE TriggerRandomEvent(c, r1, kind, r2, k)
           sent1 == r.event # "None"
           raised1 == sent1 /\ SendMessageRaises(send_fails)
       IN batch' = AfterPet([batch EXCEPT
                                !.rows[id] = r.chat,
                                !.failed_call[id] =
                                    IF raises THEN "trigger_random_event" ELSE "none",
                                !.notices =
                                    IF sent1
                                    THEN Append(@, Notice(id, "event", send_fails, r.chat))
                                    ELSE @],
                            id, raises \/ raised1)
    /\ UNCHANGED <<has_chat, chat, users, offers, clock, last, appended, night,
                   draw, race, flight>>
    /\ UNCHANGED events

\* check_sleep_all, the body of the next selected pet.
BatchSleepPet(raises) ==
    /\ batch.job = "check_sleep_all"
    /\ batch.pos \in 1..Len(batch.selected)
    /\ LET id == batch.selected[batch.pos]
           c == batch.rows[id]
           row == IF raises THEN c ELSE CheckSleepStatus(c, batch.hour)
       IN batch' = AfterPet([batch EXCEPT
                                !.rows[id] = row,
                                !.failed_call[id] =
                                    IF raises THEN "check_sleep_status" ELSE "none"],
                            id, raises)
    /\ UNCHANGED <<has_chat, chat, users, offers, clock, last, appended, night,
                   draw, race, flight>>
    /\ UNCHANGED events

NextBatch ==
    \/ BatchSelect
    \/ \E fail_at \in {"none", "check_sleep_status", "tick_stats", "check_and_evolve"},
          send_fails \in BOOLEAN :
          BatchTickPet(fail_at, send_fails)
    \/ \E raises \in BOOLEAN, send_fails \in BOOLEAN, r1 \in {0, 31},
          kind \in EventKinds, r2 \in {15, 26} :
          \E k \in IF raises \/ r1 > 30 \/ r2 > EventProbability(kind)
                   THEN {1} ELSE 1..OutcomeCount(kind) :
             BatchEventPet(raises, send_fails, r1, kind, r2, k)
    \/ \E raises \in BOOLEAN : BatchSleepPet(raises)

SpecBatch == InitBatch /\ [][NextBatch]_vars

----------------------------------------------------------------------------
(* The sleep-recheck job and the tick job at one wall-clock hour, over     *)
(* every hour of the day: check_sleep_status on the stored row, run after  *)
(* run, and the tick pass that starts with the same check.                 *)

\* The stored rows, a pet left with health 5 whose other vitals have been
\* raised again, and one a single penalty away from the threshold.
SleepRows ==
    StoredChats
    \cup { StoredChat(<<60, 60, 60, 5>>, <<"BABY", "NORMAL", 120, 0, 0, 0, 0>>, s) :
              s \in BOOLEAN }
    \cup { StoredChat(<<60, 60, 20, 14>>, <<"BABY", "NORMAL", 120, 0, 0, 0, 0>>, FALSE) }

InitSleep ==
    /\ has_chat = TRUE
    /\ chat \in SleepRows
    /\ users = [u \in Users |-> NewUser]
    /\ offers = 0
    /\ clock = 0
    /\ last = Result("start")
    /\ appended = <<>>
    /\ \E h \in 0..23 : night = [NightIdle EXCEPT !.current_hour = h]
    /\ draw = DrawIdle
    /\ race = RaceIdle
    /\ batch = BatchIdle
    /\ flight = FlightIdle
    /\ events = EventsIdle

\* check_sleep_all, the body run for this chat when its pet is selected
\* (alive), at the hour the wall clock shows.
CheckSleepAllNow ==
    /\ clock < MaxSteps
    /\ has_chat /\ chat.is_alive
    /\ clock' = clock + 1
    /\ chat' = CheckSleepStatus(chat, night.current_hour)
    /\ appended' = <<>>
    /\ last' = Result("check_sleep")
    /\ UNCHANGED <<has_chat, users, offers, night, draw, race, batch, flight>>
    /\ events' = Log(events, appended')

NextSleep ==
    \/ CheckSleepAllNow
    \/ TickAllPets(night.current_hour)

SpecSleep == InitSleep /\ [][NextSleep]_vars

----------------------------------------------------------------------------
(* The gamble keyboard: /gamble shows it, a tick, a /play or a press of     *)
(* another keyboard changes the pet while it is on screen, and a button is  *)
(* pressed later.                                                           *)

\* The stored rows and a pet whose hunger is exactly the 30 that /gamble asks.
GambleRows ==
    StoredChats
    \cup { StoredChat(<<30, 50, 50, 50>>, <<"BABY", "NORMAL", 120, 0, 0, 0, 0>>, FALSE) }

\* The keyboards earlier /gamble commands left on screen: none for a pet
\* that /gamble refuses.
InitGamble ==
    /\ has_chat = TRUE
    /\ chat \in GambleRows
    /\ users = [u \in Users |-> NewUser]
    /\ offers \in IF chat.is_alive /\ ~(chat.hunger < 30)
                  THEN 0..(MaxOffers + 1) ELSE {0}
    /\ clock = 0
    /\ last = Result("start")
    /\ appended = <<>>
    /\ night = NightIdle
    /\ draw = DrawIdle
    /\ race = RaceIdle
    /\ batch = BatchIdle
    /\ flight = FlightIdle
    /\ events = EventsIdle

NextGamble ==
    \/ CmdGamble
    \/ \E u \in Users, won \in BOOLEAN : CallbackGamblePlay(u, won)
    \/ CallbackGambleCancel
    \/ \E u \in Users : CmdPlay(u)
    \/ \E h \in Hours : TickAllPets(h)

SpecGamble == InitGamble /\ [][NextGamble]_vars

----------------------------------------------------------------------------
(* The two CRUD increments called directly, with names inside and outside  *)
(* their allow-lists (the names outside are other columns of the two       *)
(* tables and a name that is no column at all).                            *)

CounterNames == ValidCounters \cup {"karma_points", "hunger", "xp", "no_such_column"}
StatNames == ValidStats \cup {"cursing_count", "present", "xp", "no_such_column"}

InitCrud ==
    /\ \/ has_chat = FALSE /\ chat = NewChat
       \/ has_chat = TRUE /\ chat \in StoredChats
    /\ users = [u \in Users |-> NewUser]
    /\ offers = 0
    /\ clock = 0
    /\ last = Result("start")
    /\ appended = <<>>
    /\ night = NightIdle
    /\ draw = DrawIdle
    /\ race = RaceIdle
    /\ batch = BatchIdle
    /\ flight = FlightIdle
    /\ events = EventsIdle

\* ChatCRUD.increment_behavior_counter(session, chat_id, counter_type)
CallIncrementBehaviorCounter(counter_type) ==
    /\ clock < MaxSteps
    /\ clock' = clock + 1
    /\ chat' = IF has_chat THEN IncrementBehaviorCounter(chat, counter_type, 1)
               ELSE chat
    /\ last' = [Result("increment_behavior_counter") EXCEPT !.event = counter_type]
    /\ appended' = <<>>
    /\ UNCHANGED <<has_chat, users, offers, night, draw, race, batch, flight>>
    /\ events' = Log(events, appended')

\* UserCRUD.increment_stat(session, user_id, chat_id, stat_name, amount)
CallIncrementStat(user_id, stat_name, amount) ==
    /\ clock < MaxSteps
    /\ clock' = clock + 1
    /\ users' = IncrementStat(users, user_id, stat_name, amount)
    /\ last' = [Result("increment_stat") EXCEPT !.event = stat_name]
    /\ appended' = <<>>
    /\ UNCHANGED <<has_chat, chat, offers, night, draw, race, batch, flight>>
    /\ events' = Log(events, appended')

NextCrud ==
    \/ \E counter_type \in CounterNames : CallIncrementBehaviorCounter(counter_type)
    \/ \E u \in Users, stat_name \in StatNames, amount \in {1, -5} :
          CallIncrementStat(u, stat_name, amount)

SpecCrud == InitCrud /\ [][NextCrud]_vars

----------------------------------------------------------------------------
(* The handlers and jobs run one at a time with the rows of the events     *)
(* table kept.  A stored pet past the egg has the EVOLUTION row of its     *)
(* first evolution in the table.                                           *)

InitLog ==
    /\ \/ has_chat = FALSE /\ chat = NewChat
       \/ has_chat = TRUE /\ chat \in StoredChats
    /\ users = [u \in Users |-> NewUser]
    /\ offers = 0
    /\ clock = 0
    /\ last = Result("start")
    /\ appended = <<>>
    /\ night = NightIdle
    /\ draw = DrawIdle
    /\ race = RaceIdle
    /\ batch = BatchIdle
    /\ flight = FlightIdle
    /\ events = [kept |-> TRUE,
                 rows |-> IF has_chat /\ chat.pet_stage # "EGG"
                          THEN <<Event("EVOLUTION", "None")>> ELSE <<>>]

NextLog ==
    \/ CmdStart
    \/ \E u \in Users : CmdFeed(u)
    \/ \E u \in Users : CmdPlay(u)
    \/ CmdGamble
    \/ \E u \in Users, won \in BOOLEAN : CallbackGamblePlay(u, won)
    \/ CallbackGambleCancel
    \/ \E u \in Users, bad \in BOOLEAN : HandleGroupMessage(u, bad, FALSE, FALSE)
    \/ HandleSticker
    \/ \E h \in {0, 12} : TickAllPets(h)
    \/ \E r1 \in {0, 31}, kind \in EventKinds :
          \E k \in IF r1 > 30 THEN {1} ELSE 1..OutcomeCount(kind) :
             TriggerRandomEvents(r1, kind, 15, k)
    \/ \E h \in {0, 12} : CheckSleepAll(h)

SpecLog == InitLog /\ [][NextLog]_vars

----------------------------------------------------------------------------
(* The tick job alone, pass after pass at a daytime hour, on a pet nobody  *)
(* touches: no user action, no random event, no sleep transition.  The     *)
(* pass stops selecting the pet once it is dead.                           *)

\* A fresh pet, pets whose xp has run ahead of their stage, and the same
\* with vitals that give out within four passes.
TickRows ==
    LET starts == { <<"EGG", 0>>, <<"EGG", 499>>, <<"EGG", 5000>>,
                    <<"BABY", 1500>>, <<"TEEN", 500>>, <<"ADULT", 5000>>,
                    <<"ANCIENT", 5000>> }
    IN { [NewChat EXCEPT !.pet_stage = p[1], !.xp = p[2],
                         !.level = (p[2] \div 100) + 1,
                         !.hunger = v, !.mood = v, !.energy = v, !.health = v] :
           p \in starts, v \in {100, 30} }

InitTicks ==
    /\ has_chat = TRUE
    /\ chat \in TickRows
    /\ users = [u \in Users |-> NewUser]
    /\ offers = 0
    /\ clock = 0
    /\ last = Result("start")
    /\ appended = <<>>
    /\ night = [NightIdle EXCEPT !.current_hour = 12]
    /\ draw = DrawIdle
    /\ race = RaceIdle
    /\ batch = BatchIdle
    /\ flight = FlightIdle
    /\ events = EventsIdle

\* tick_all_pets, the body run for this chat when its pet is selected
\* (alive); clock counts the passes that processed the pet.
TickPass ==
    /\ has_chat /\ chat.is_alive
    /\ clock' = clock + 1
    /\ LET c1 == CheckSleepStatus(chat, night.current_hour)
           t == TickStats(c1)
           e == IF t.is_alive THEN CheckAndEvolve(t.chat) ELSE NotEvolved(t.chat)
       IN /\ chat' = e.chat
          /\ appended' = t.events \o e.events
          /\ last' = [Result("tick") EXCEPT
                         !.is_alive = t.is_alive, !.is_critical = t.is_critical,
                         !.last_tick_stamped = t.last_tick_stamped,
                         !.evolved = e.evolved, !.new_stage = e.new_stage,
                         !.new_type = e.new_type]
    /\ UNCHANGED <<has_chat, users, offers, night, draw, race, batch, flight>>
    /\ events' = Log(events, appended')

NextTicks == TickPass

SpecTicks == InitTicks /\ [][NextTicks]_vars

\* The scheduler fires the interval job again and again.
SpecTicksFair == SpecTicks /\ WF_vars(TickPass)

----------------------------------------------------------------------------
(* One handler (or one pet's body of the random-event job) in flight on    *)
(* the chat, call by call, while the other handlers and jobs run whole.    *)
(* The handler's session loads the row once into its Chat object and every *)
(* later chat.<column> reads that object: ChatCRUD.get inside add_xp and    *)
(* increment_behavior_counter returns the object already in the session    *)
(* (expire_on_commit=False), an UPDATE writes only the columns it names, a *)
(* flush writes only the attributes the handler assigned, and add_xp ends  *)
(* with session.refresh, which reloads the whole object.                   *)

\* The awaited calls a handler still has to make, as <<name, amount>> pairs.
UpdateStatsCall(args) == [call |-> "update_stats", args |-> args]
AddXpCall(xp_amount) == [call |-> "add_xp", args |-> << <<"xp", xp_amount>> >>]
CounterCall(counter_type) ==
    [call |-> "increment_behavior_counter", args |-> << <<counter_type, 1>> >>]
StatCall(stat_name, amount) ==
    [call |-> "increment_stat", args |-> << <<stat_name, amount>> >>]
UserCall == [call |-> "get_or_create", args |-> << <<"user", 1>> >>]
CreateCall(event_type) == [call |-> "create", args |-> << <<event_type, 1>> >>]
ExecuteCall(kind, k) == [call |-> "execute", args |-> << <<kind, k>> >>]

\* The columns the UPDATE of an event outcome names.
ExecuteColumns(kind, k) ==
    CASE kind = "Mysterious Box" ->
            (CASE k = 1 -> {"hunger", "last_interaction"}
               [] k = 2 -> {"energy", "last_interaction"}
               [] k = 3 -> {"mood", "last_interaction"}
               [] k = 4 -> {"health", "last_interaction"}
               [] k = 5 -> {"xp", "level"})
      [] kind = "Visitor" ->
            (CASE k = 1 -> {"hunger", "mood", "energy", "health", "last_interaction"}
               [] k = 2 -> {"hunger", "last_interaction"}
               [] k = 3 -> {"mood", "last_interaction"})
      [] kind = "Weather Change" ->
            (CASE k = 3 -> {"mood", "energy", "last_interaction"}
               [] OTHER -> {"mood", "last_interaction"})

\* One call on the session's object c: the object after it, the columns its
\* UPDATE writes, and whether it ends with a refresh of the object.
ApplyCall(c, o) ==
    CASE o.call = "update_stats" ->
            LET stats == { o.args[i][1] : i \in 1..Len(o.args) }
                Delta(st) == o.args[CHOOSE i \in 1..Len(o.args) : o.args[i][1] = st][2]
                values == [st \in stats |->
                              IF Delta(st) > 0 THEN Min(100, c[st] + Delta(st))
                              ELSE Max(0, c[st] + Delta(st))]
            IN [obj |-> UpdateStats(c, values),
                columns |-> stats \cup {"last_interaction"}, refresh |-> FALSE]
      [] o.call = "add_xp" ->
            LET c1 == AddXp(c, o.args[1][2])
            IN [obj |-> c1,
                columns |-> {"xp"} \cup (IF c1.level # c.level THEN {"level"} ELSE {}),
                refresh |-> TRUE]
      [] o.call = "increment_behavior_counter" ->
            [obj |-> IncrementBehaviorCounter(c, o.args[1][1], o.args[1][2]),
             columns |-> {o.args[1][1]}, refresh |-> FALSE]
      [] o.call = "execute" ->
            LET kind == o.args[1][1]
                k == o.args[1][2]
                r == CASE kind = "Mysterious Box" -> FindBoxExecute(c, k)
                       [] kind = "Visitor" -> VisitorExecute(c, k)
                       [] kind = "Weather Change" -> WeatherExecute(c, k)
                columns == ExecuteColumns(kind, k)
            IN [obj |-> r.chat,
                columns |-> IF "level" \in columns /\ r.chat.level = c.level
                            THEN columns \ {"level"} ELSE columns,
                refresh |-> "xp" \in columns]
      [] OTHER -> [obj |-> c, columns |-> {}, refresh |-> FALSE]

\* cmd_feed from its ChatCRUD.get to the first awaited write.
FeedCalls(c) ==
    IF c.is_sleeping
    THEN << UpdateStatsCall(<< <<"health", -15>>, <<"mood", -20>> >>),
            CreateCall("NIGHT_DISTURB"), StatCall("night_disturb_count", 1) >>
    ELSE IF ~c.is_alive THEN <<>>
    ELSE << UpdateStatsCall(<< <<"hunger", 30>>, <<"mood", 5>> >>),
            AddXpCall(XP_PER_FEED), CreateCall("FEED"),
            StatCall("feed_count", 1), StatCall("karma_points", 5) >>

\* cmd_play likewise.
PlayCalls(c) ==
    IF c.is_sleeping
    THEN << UpdateStatsCall(<< <<"health", -15>>, <<"mood", -20>> >>),
            CreateCall("NIGHT_DISTURB"), StatCall("night_disturb_count", 1) >>
    ELSE IF ~c.is_alive \/ c.energy < 20 THEN <<>>
    ELSE << UpdateStatsCall(<< <<"mood", 20>>, <<"energy", -10>>, <<"hunger", -5>> >>),
            AddXpCall(XP_PER_GAME), CreateCall("PLAY"),
            StatCall("play_count", 1), StatCall("karma_points", 3) >>

\* handle_group_message
GroupMessageCalls(c, bad, caps, code) ==
    IF ~c.is_alive THEN <<>>
    ELSE << UserCall, StatCall("message_count", 1), AddXpCall(XP_PER_MESSAGE),
            UpdateStatsCall(<< <<"hunger", 1>> >>) >>
         \o (IF bad THEN << CounterCall("cursing_count"),
                            UpdateStatsCall(<< <<"mood", -2>> >>) >> ELSE <<>>)
         \o (IF caps THEN << CounterCall("caps_count"),
                             UpdateStatsCall(<< <<"mood", -1>> >>) >> ELSE <<>>)
         \o (IF code THEN << CounterCall("code_count") >> ELSE <<>>)

\* handle_sticker
StickerCalls(c) ==
    IF ~c.is_alive THEN <<>>
    ELSE << CounterCall("meme_count"), UpdateStatsCall(<< <<"mood", 2>> >>) >>

\* handle_photo
PhotoCalls(c, caption, bad, code) ==
    IF ~c.is_alive THEN <<>>
    ELSE (IF caption # "none" /\ bad THEN << CounterCall("cursing_count") >> ELSE <<>>)
         \o (IF caption # "none" /\ code THEN << CounterCall("code_count") >> ELSE <<>>)
         \o (IF caption # "long"
             THEN << CounterCall("meme_count"), UpdateStatsCall(<< <<"mood", 1>> >>) >>
             ELSE <<>>)

\* trigger_random_event on the object the job's select loaded
RandomEventCalls(c, r1, kind, r2, k) ==
    IF TriggerRandomEvent(c, r1, kind, r2, k).event = "None" THEN <<>>
    ELSE << ExecuteCall(kind, k) >>

\* The stored rows a handler in flight starts on: the rows above and a pet
\* five xp short of level 2.
FlightRows ==
    StoredChats
    \cup { StoredChat(<<100, 100, 100, 100>>, <<"EGG", "NORMAL", 95, 0, 0, 0, 0>>, FALSE) }

InitFlight ==
    /\ has_chat = TRUE
    /\ chat \in FlightRows
    /\ users = [u \in Users |-> NewUser]
    /\ offers = 0
    /\ clock = 0
    /\ last = Result("start")
    /\ appended = <<>>
    /\ night = NightIdle
    /\ draw = DrawIdle
    /\ race = RaceIdle
    /\ batch = BatchIdle
    /\ flight = FlightIdle
    /\ events = EventsIdle

\* A handler whose session has just loaded the row c: its Chat object and
\* the calls to come.
Loaded(handler, user_id, c, calls) ==
    [handler |-> handler, user_id |-> user_id, obj |-> c, calls |-> calls]

StartCmdFeed(user_id) ==
    /\ flight.handler = "None"
    /\ has_chat
    /\ flight' = Loaded("cmd_feed", user_id, chat, FeedCalls(chat))
    /\ last' = Result("in_flight")
    /\ appended' = <<>>
    /\ UNCHANGED <<has_chat, chat, users, offers, clock, night, draw, race, batch>>
    /\ events' = Log(events, appended')

StartCmdPlay(user_id) ==
    /\ flight.handler = "None"
    /\ has_chat
    /\ flight' = Loaded("cmd_play", user_id, chat, PlayCalls(chat))
    /\ last' = Result("in_flight")
    /\ appended' = <<>>
    /\ UNCHANGED <<has_chat, chat, users, offers, clock, night, draw, race, batch>>
    /\ events' = Log(events, appended')

StartHandleGroupMessage(user_id, bad, caps, code) ==
    /\ flight.handler = "None"
    /\ has_chat
    /\ flight' = Loaded("handle_group_message", user_id, chat,
                        GroupMessageCalls(chat, bad, caps, code))
    /\ last' = Result("in_flight")
    /\ appended' = <<>>
    /\ UNCHANGED <<has_chat, chat, users, offers, clock, night, draw, race, batch>>
    /\ events' = Log(events, appended')

StartHandleSticker ==
    /\ flight.handler = "None"
    /\ has_chat
    /\ flight' = Loaded("handle_sticker", "None", chat, StickerCalls(chat))
    /\ last' = Result("in_flight")
    /\ appended' = <<>>
    /\ UNCHANGED <<has_chat, chat, users, offers, clock, night, draw, race, batch>>
    /\ events' = Log(events, appended')

StartHandlePhoto(caption, bad, code) ==
    /\ flight.handler = "None"
    /\ has_chat
    /\ caption = "none" => (~bad /\ ~code)
    /\ flight' = Loaded("handle_photo", "None", chat,
                        PhotoCalls(chat, caption, bad, code))
    /\ last' = Result("in_flight")
    /\ appended' = <<>>
    /\ UNCHANGED <<has_chat, chat, users, offers, clock, night, draw, race, batch>>
    /\ events' = Log(events, appended')

\* trigger_random_events: the select returns this chat (alive and awake); the
\* draws are the ones its body will make.
StartTriggerRandomEvents(r1, kind, r2, k) ==
    /\ flight.handler = "None"
    /\ has_chat /\ chat.is_alive /\ ~chat.is_sleeping
    /\ flight' = Loaded("trigger_random_events", "None", chat,
                        RandomEventCalls(chat, r1, kind, r2, k))
    /\ last' = Result("in_flight")
    /\ appended' = <<>>
    /\ UNCHANGED <<has_chat, chat, users, offers, clock, night, draw, race, batch>>
    /\ events' = Log(events, appended')

\* The handler in flight makes its next call.
NextCall ==
    /\ flight.calls # <<>>
    /\ LET o == Head(flight.calls)
           a == ApplyCall(flight.obj, o)
           row == WriteColumns(chat, a.obj, a.columns)
       IN /\ chat' = row
          /\ flight' = [flight EXCEPT !.obj = IF a.refresh THEN row ELSE a.obj,
                                      !.calls = Tail(@)]
          /\ users' = CASE o.call = "increment_stat" ->
                              IncrementStat(users, flight.user_id,
                                            o.args[1][1], o.args[1][2])
                        [] o.call = "get_or_create" ->
                              GetOrCreateUser(users, flight.user_id)
                        [] OTHER -> users
          /\ appended' = CASE o.call = "create" ->
                                 << Event(o.args[1][1], flight.user_id) >>
                           [] o.call = "execute" -> << Event("RANDOM_EVENT", "None") >>
                           [] OTHER -> <<>>
    /\ last' = Result("in_flight")
    /\ UNCHANGED <<has_chat, offers, clock, night, draw, race, batch>>
    /\ events' = Log(events, appended')

\* The handlers and jobs that run whole around the one in flight; a job does
\* not start again while its previous run is still going.
Around ==
    \/ CmdStart
    \/ \E u \in Users : CmdFeed(u)
    \/ \E u \in Users : HandleGroupMessage(u, TRUE, FALSE, FALSE)
    \/ TickAllPets(12)
    \/ CheckSleepAll(0)
    \/ /\ ~(flight.handler = "trigger_random_events" /\ flight.calls # <<>>)
       /\ TriggerRandomEvents(0, "Mysterious Box", 15, 5)

NextFlight ==
    \/ Around
    \/ \E u \in Users : StartCmdFeed(u)
    \/ \E u \in Users : StartCmdPlay(u)
    \/ \E u \in Users, bad \in BOOLEAN, code \in BOOLEAN :
          StartHandleGroupMessage(u, bad, bad, code)
    \/ StartHandleSticker
    \/ \E caption \in {"short", "long"}, bad \in BOOLEAN :
          StartHandlePhoto(caption, bad, bad)
    \/ \E kind \in EventKinds :
          \E k \in 1..OutcomeCount(kind) :
             StartTriggerRandomEvents(0, kind, 15, k)
    \/ NextCall

SpecFlight == InitFlight /\ [][NextFlight]_vars

----------------------------------------------------------------------------
(* Properties *)

\* The step is the /start revival of a dead pet.
IsRevival == last'.op = "cmd_start" /\ last'.success

\* Position of a stage in the order EGG < BABY < TEEN < ADULT < ANCIENT.
StageRank(stage) ==
    CASE stage = "EGG" -> 1
      [] stage = "BABY" -> 2
      [] stage = "TEEN" -> 3
      [] stage = "ADULT" -> 4
      [] stage = "ANCIENT" -> 5

\* C1: in every reachable state each of hunger, mood, energy and health of
\* the pet lies in 0..100.
C1_VitalsInRange ==
    /\ chat.hunger \in 0..100
    /\ chat.mood \in 0..100
    /\ chat.energy \in 0..100
    /\ chat.health \in 0..100

\* C1 witness: a tick has decayed a mood of 1 and the stored mood is 0.
C1_Witness ==
    /\ last.op = "tick"
    /\ chat.mood = 0
    /\ chat.hunger = 0
    /\ chat.pet_stage = "EGG" /\ chat.xp = 99

\* C2: a pet whose health is 0 is not alive, whichever operation lowered
\* the health to 0.
C2_ZeroHealthIsDead ==
    has_chat => (chat.health = 0 => ~chat.is_alive)

\* C3: a night disturbance applied to a sleeping pet whose health is at most
\* 15 leaves it dead: health 0, not alive, death time set.
C3_DisturbanceKills ==
    [][(has_chat /\ chat.is_alive /\ chat.is_sleeping /\ chat.health <= 15
            /\ last'.disturbed)
        => (chat'.health = 0 /\ ~chat'.is_alive /\ chat'.death_at # "None")]_vars

\* C4: for a dead pet every feed, play and gamble attempt fails and leaves
\* vitals, xp, level, stage, type and behaviour counters unchanged, whatever
\* the stored sleeping flag.
C4_DeadPetUntouched ==
    [][(has_chat /\ ~chat.is_alive
            /\ last'.op \in {"cmd_feed", "cmd_play", "cmd_gamble", "gamble_play"})
        => /\ ~last'.success
           /\ chat'.hunger = chat.hunger /\ chat'.mood = chat.mood
           /\ chat'.energy = chat.energy /\ chat'.health = chat.health
           /\ chat'.xp = chat.xp /\ chat'.level = chat.level
           /\ chat'.pet_stage = chat.pet_stage /\ chat'.pet_type = chat.pet_type
           /\ chat'.cursing_count = chat.cursing_count
           /\ chat'.meme_count = chat.meme_count
           /\ chat'.code_count = chat.code_count
           /\ chat'.caps_count = chat.caps_count]_vars

\* C5: /start on a dead pet, from any dead state, yields xp 0, level 1, stage
\* EGG, type NORMAL, the four behaviour counters 0, the four vitals 100,
\* alive, and the death time cleared.
C5_RevivalResets ==
    [][(has_chat /\ ~chat.is_alive /\ last'.op = "cmd_start")
        => /\ last'.success
           /\ chat'.xp = 0 /\ chat'.level = 1
           /\ chat'.pet_stage = "EGG" /\ chat'.pet_type = "NORMAL"
           /\ chat'.cursing_count = 0 /\ chat'.meme_count = 0
           /\ chat'.code_count = 0 /\ chat'.caps_count = 0
           /\ chat'.hunger = 100 /\ chat'.mood = 100
           /\ chat'.energy = 100 /\ chat'.health = 100
           /\ chat'.is_alive /\ chat'.death_at = "None"]_vars

\* C5 witness: a revival has run (it appended BIRTH) and the pet is a fresh egg.
C5_Witness ==
    /\ last.op = "cmd_start" /\ last.success
    /\ appended = <<Event("BIRTH", "None")>>
    /\ chat.is_alive /\ chat.pet_stage = "EGG" /\ chat.xp = 0

\* C6: a step that is not a revival leaves the stage where it is or moves it
\* to the immediate successor; it never moves it backward.
C6_StageForwardByOne ==
    [][(has_chat /\ ~IsRevival)
        => \/ chat'.pet_stage = chat.pet_stage
           \/ StageRank(chat'.pet_stage) = StageRank(chat.pet_stage) + 1]_vars

\* C6 witness: a tick pass has evolved the pet into the last stage.
C6_Witness ==
    /\ last.op = "tick" /\ last.evolved
    /\ chat.pet_stage = "ANCIENT"

\* C7: once the pet is TEEN or later, no step other than a revival changes
\* its type.
C7_TypeFrozenFromTeen ==
    [][(has_chat /\ chat.pet_stage \in {"TEEN", "ADULT", "ANCIENT"} /\ ~IsRevival)
        => chat'.pet_type = chat.pet_type]_vars

\* C7 witness: an ANGEL whose cursing counter has since left 0 has evolved
\* to ADULT and is still an ANGEL.
C7_Witness ==
    /\ last.op = "tick" /\ last.evolved
    /\ chat.pet_stage = "ADULT"
    /\ chat.pet_type = "ANGEL"
    /\ chat.cursing_count > 0

\* The spec's ordered list of types and what qualifies a pet for each.
TypePriority == <<"ANGEL", "CYBER_BOT", "MEME_CAT", "TROLL", "GOBLIN", "NORMAL">>

Qualifies(type, c) ==
    CASE type = "ANGEL" ->
            c.cursing_count = 0
            /\ c.cursing_count + c.meme_count + c.code_count + c.caps_count >= 200
      [] type = "CYBER_BOT" -> c.code_count >= 50
      [] type = "MEME_CAT" -> c.meme_count >= 50
      [] type = "TROLL" -> c.caps_count >= 100 /\ c.cursing_count >= 30
      [] type = "GOBLIN" -> c.cursing_count >= 50
      [] type = "NORMAL" -> TRUE

\* The evolution into TEEN that has just run (it ran determine_pet_type on
\* the stored counters, which it does not change).
JustBecameTeen ==
    last.op = "check_and_evolve" /\ last.evolved /\ last.new_stage = "TEEN"

\* C8: the type determine_pet_type returns is the first entry of the ordered
\* list the counters qualify for.
C8_TypeIsFirstMatch ==
    JustBecameTeen =>
        \E i \in 1..Len(TypePriority) :
            /\ Qualifies(TypePriority[i], chat)
            /\ \A j \in 1..(i - 1) : ~Qualifies(TypePriority[j], chat)
            /\ last.new_type = TypePriority[i]
            /\ chat.pet_type = TypePriority[i]

\* C8 witness: a pet that qualifies for ANGEL, CYBER_BOT and MEME_CAT at once
\* has become an ANGEL.
C8_Witness ==
    /\ JustBecameTeen
    /\ Qualifies("ANGEL", chat) /\ Qualifies("CYBER_BOT", chat)
    /\ Qualifies("MEME_CAT", chat)
    /\ chat.pet_type = "ANGEL"

\* C9 as stated: counters cursing 0, meme 60, code 60, caps 0 give ANGEL.
C9_Original ==
    (JustBecameTeen /\ chat.cursing_count = 0 /\ chat.meme_count = 60
        /\ chat.code_count = 60 /\ chat.caps_count = 0)
    => last.new_type = "ANGEL"

\* C9 amended: with cursing 0, meme 60 and code 60 the result is ANGEL exactly
\* when caps >= 80 (the four counters then sum to 200 or more); with caps 0
\* (sum 120) it is CYBER_BOT.
C9_AngelNeedsTotal200 ==
    (JustBecameTeen /\ chat.cursing_count = 0 /\ chat.meme_count = 60
        /\ chat.code_count = 60)
    => last.new_type = IF chat.caps_count >= 80 THEN "ANGEL" ELSE "CYBER_BOT"

\* C9 witness: cursing 0, meme 60, code 60, caps 80 has become an ANGEL.
C9_Witness ==
    /\ JustBecameTeen
    /\ chat.cursing_count = 0 /\ chat.meme_count = 60
    /\ chat.code_count = 60 /\ chat.caps_count = 80
    /\ last.new_type = "ANGEL"

\* The claimed threshold of the stage after the one of the given rank.
NextThreshold(rank) ==
    CASE rank = 1 -> 100
      [] rank = 2 -> 500
      [] rank = 3 -> 1500
      [] rank = 4 -> 5000

\* C10: for an alive pet below ANCIENT, check_and_evolve changes nothing and
\* emits no event at xp = next threshold - 1, and at xp = next threshold
\* moves the stage to the successor and emits one EVOLUTION event.
C10_EvolvesExactlyAtThreshold ==
    [][(has_chat /\ chat.is_alive /\ chat.pet_stage # "ANCIENT"
            /\ last'.op = "check_and_evolve")
        => LET rank == StageRank(chat.pet_stage)
           IN /\ chat.xp = NextThreshold(rank) - 1
                    => (chat' = chat /\ appended' = <<>> /\ ~last'.evolved)
              /\ chat.xp = NextThreshold(rank)
                    => /\ StageRank(chat'.pet_stage) = rank + 1
                       /\ last'.evolved /\ last'.new_stage = chat'.pet_stage
                       /\ appended' = <<Event("EVOLUTION", "None")>>
                       /\ chat'.xp = chat.xp]_vars

\* C10 witness: an evolution into ADULT has run at xp exactly 1500.
C10_Witness ==
    /\ last.op = "check_and_evolve" /\ last.evolved
    /\ chat.pet_stage = "ADULT" /\ chat.xp = 1500
    /\ appended = <<Event("EVOLUTION", "None")>>

\* The hour lies in the half-open cyclic interval [night_start, night_end).
InCyclicWindow(h, night_start, night_end) ==
    (h - night_start) % 24 < (night_end - night_start) % 24

C12_TickArithmetic ==
    [][(has_chat /\ chat.is_alive /\ last'.op = "tick")
        => LET woke == chat.is_sleeping /\ ~chat'.is_sleeping
               old_energy == IF woke THEN Min(100, chat.energy + 50) ELSE chat.energy
               new_hunger == Max(0, chat.hunger - STAT_DECAY_PER_TICK)
               new_mood == Max(0, chat.mood - STAT_DECAY_PER_TICK)
               new_energy == Max(0, old_energy - STAT_DECAY_PER_TICK)
               P == (IF new_hunger < 20 THEN 10 ELSE 0)
                    + (IF new_mood < 20 THEN 5 ELSE 0)
                    + (IF new_energy < 20 THEN 5 ELSE 0)
           IN /\ chat'.hunger = new_hunger
              /\ chat'.mood = new_mood
              /\ chat'.energy = new_energy
              /\ chat'.health = Max(0, chat.health - P)
              /\ (chat.hunger = 100 /\ chat.mood = 100 /\ chat.energy = 100
                    /\ chat.health = 100)
                  => /\ chat'.hunger = 95 /\ chat'.mood = 95 /\ chat'.energy = 95
                     /\ chat'.health = 100
                     /\ chat'.is_alive /\ last'.is_alive /\ ~last'.is_critical]_vars

\* C12 witness: a tick has taken a fresh pet to 95/95/95 with health 100.
C12_Witness ==
    /\ last.op = "tick" /\ last.is_alive /\ ~last.is_critical
    /\ chat.hunger = 95 /\ chat.mood = 95 /\ chat.energy = 95
    /\ chat.health = 100 /\ chat.is_alive

\* C13: when a tick brings the health to 0, that pass marks the pet dead with
\* a death time, appends exactly one DEATH event and nothing else (no
\* EVOLUTION, no CRITICAL_HEALTH), and changes neither stage nor type, even
\* if the xp meets the next stage threshold.
C13_DeathStopsThePass ==
    [][(has_chat /\ chat.is_alive /\ last'.op = "tick" /\ chat'.health = 0)
        => /\ ~chat'.is_alive /\ chat'.death_at # "None"
           /\ ~last'.is_alive
           /\ appended' = <<Event("DEATH", "None")>>
           /\ ~last'.evolved
           /\ chat'.pet_stage = chat.pet_stage
           /\ chat'.pet_type = chat.pet_type]_vars

\* C13 witness: a tick has killed a BABY whose xp is the TEEN threshold.
C13_Witness ==
    /\ last.op = "tick" /\ ~last.is_alive
    /\ ~chat.is_alive /\ chat.health = 0
    /\ chat.pet_stage = "BABY" /\ chat.xp = STAGE_THRESHOLDS["TEEN"]
    /\ appended = <<Event("DEATH", "None")>>

\* C14: /feed on an alive, awake pet succeeds, sets hunger to
\* min(100, hunger + 30) and mood to min(100, mood + 5), adds XP_PER_FEED to
\* xp, leaves energy and health unchanged and appends one FEED event tagged
\* with the actor; feeding at hunger 90 gives hunger 100.
C14_FeedEffect ==
    [][(has_chat /\ chat.is_alive /\ ~chat.is_sleeping /\ last'.op = "cmd_feed")
        => /\ last'.success
           /\ chat'.hunger = Min(100, chat.hunger + 30)
           /\ chat'.mood = Min(100, chat.mood + 5)
           /\ chat'.xp = chat.xp + XP_PER_FEED
           /\ chat'.energy = chat.energy /\ chat'.health = chat.health
           /\ \E u \in Users : appended' = <<Event("FEED", u)>>
           /\ chat.hunger = 90 => chat'.hunger = 100]_vars

\* C14 witness: a pet stored with hunger 90, mood 97 and xp 499 has been fed.
C14_Witness ==
    /\ last.op = "cmd_feed" /\ last.success
    /\ chat.hunger = 100 /\ chat.mood = 100 /\ chat.xp = 504
    /\ appended = <<Event("FEED", "u1")>>

\* C15: /play on an alive, awake pet with energy < 20 fails, changes no
\* vital and no xp and appends no event; with energy >= 20 it succeeds, sets
\* mood to min(100, mood + 20), energy to energy - 10, hunger to
\* max(0, hunger - 5), adds XP_PER_GAME to xp and appends one PLAY event.
C15_PlayEffect ==
    [][(has_chat /\ chat.is_alive /\ ~chat.is_sleeping /\ last'.op = "cmd_play")
        => IF chat.energy < 20
           THEN /\ ~last'.success
                /\ chat'.hunger = chat.hunger /\ chat'.mood = chat.mood
                /\ chat'.energy = chat.energy /\ chat'.health = chat.health
                /\ chat'.xp = chat.xp
                /\ appended' = <<>>
           ELSE /\ last'.success
                /\ chat'.mood = Min(100, chat.mood + 20)
                /\ chat'.energy = chat.energy - 10
                /\ chat'.hunger = Max(0, chat.hunger - 5)
                /\ chat'.health = chat.health
                /\ chat'.xp = chat.xp + XP_PER_GAME
                /\ \E u \in Users : appended' = <<Event("PLAY", u)>>]_vars

\* C15 witness: /play on an alive, awake pet with energy 15 has failed.
C15_Witness ==
    /\ last.op = "cmd_play" /\ ~last.success /\ ~last.disturbed
    /\ chat.is_alive /\ ~chat.is_sleeping
    /\ chat.energy = 15
    /\ appended = <<>>

\* C16: an applied gamble has exactly one of two outcomes.  A win sets hunger
\* to min(100, hunger + 50), adds 1 to the actor's win counter and 10 to the
\* actor's karma and appends one GAMBLE_WIN event; a loss sets hunger to
\* max(0, hunger - 30), adds 1 to the actor's loss counter, subtracts 5 from
\* the actor's karma and appends one GAMBLE_LOSS event; neither changes
\* mood, energy, health or xp.
C16_GambleOutcome ==
    [][(last'.op = "gamble_play" /\ last'.success)
        => \E u \in Users :
              LET win == /\ chat'.hunger = Min(100, chat.hunger + 50)
                         /\ users'[u].gamble_wins = users[u].gamble_wins + 1
                         /\ users'[u].gamble_losses = users[u].gamble_losses
                         /\ users'[u].karma_points = users[u].karma_points + 10
                         /\ appended' = <<Event("GAMBLE_WIN", u)>>
                  loss == /\ chat'.hunger = Max(0, chat.hunger - 30)
                          /\ users'[u].gamble_losses = users[u].gamble_losses + 1
                          /\ users'[u].gamble_wins = users[u].gamble_wins
                          /\ users'[u].karma_points = users[u].karma_points - 5
                          /\ appended' = <<Event("GAMBLE_LOSS", u)>>
              IN /\ (win \/ loss) /\ ~(win /\ loss)
                 /\ chat'.mood = chat.mood /\ chat'.energy = chat.energy
                 /\ chat'.health = chat.health /\ chat'.xp = chat.xp]_vars

\* C16 witness: a lost gamble has been applied to the actor's first record.
C16_Witness ==
    /\ last.op = "gamble_play" /\ last.success
    /\ appended = <<Event("GAMBLE_LOSS", "u1")>>
    /\ users["u1"].gamble_losses = 1 /\ users["u1"].karma_points = -5

\* C17: whenever an alive pet is sleeping and a user attempts feed, play or
\* gamble (the /gamble command or the play button of its keyboard), the
\* attempt applies exactly the disturbance effect (health - 15 and mood - 20,
\* clamped, the actor's disturb counter + 1, one NIGHT_DISTURB event) and
\* none of the action's own effects: no hunger or energy change, no xp gain,
\* no win, loss or karma change, no FEED, PLAY or GAMBLE event.
C17_SleepingPetIsOnlyDisturbed ==
    [][(has_chat /\ chat.is_alive /\ chat.is_sleeping
            /\ last'.op \in {"cmd_feed", "cmd_play", "cmd_gamble", "gamble_play"})
        => \E u \in Users :
              /\ chat'.health = Max(0, chat.health - 15)
              /\ chat'.mood = Max(0, chat.mood - 20)
              /\ users'[u].night_disturb_count = users[u].night_disturb_count + 1
              /\ appended' = <<Event("NIGHT_DISTURB", u)>>
              /\ chat'.hunger = chat.hunger /\ chat'.energy = chat.energy
              /\ chat'.xp = chat.xp
              /\ users'[u].gamble_wins = users[u].gamble_wins
              /\ users'[u].gamble_losses = users[u].gamble_losses
              /\ users'[u].karma_points = users[u].karma_points]_vars

\* The probability the specification gives each event kind, in hundredths.
NominalProbability(kind) ==
    CASE kind = "Mysterious Box" -> 20
      [] kind = "Visitor" -> 15
      [] kind = "Weather Change" -> 25

\* The rows the outcome table of a kind can leave (Box 5, Visitor 3, Weather 4
\* entries).
OutcomeRows(kind, c) ==
    CASE kind = "Mysterious Box" -> { FindBoxExecute(c, k).chat : k \in 1..5 }
      [] kind = "Visitor" -> { VisitorExecute(c, k).chat : k \in 1..3 }
      [] kind = "Weather Change" -> { WeatherExecute(c, k).chat : k \in 1..4 }

\* C18: for an alive, awake pet, when both draws are below their gates the
\* chosen kind applies one outcome of its own table, appends exactly one
\* RANDOM_EVENT entry, returns a result naming the kind and leaves every
\* vital in 0..100; when either draw is above its gate nothing changes and
\* the result is none.
C18_RandomEventFiring ==
    [][(chat.is_alive /\ ~chat.is_sleeping /\ last'.op = "trigger_random_event")
        => /\ (draw.r1 < 30 /\ draw.r2 < NominalProbability(draw.kind))
              => /\ last'.success /\ last'.event = draw.kind
                 /\ appended' = <<Event("RANDOM_EVENT", "None")>>
                 /\ chat' \in OutcomeRows(draw.kind, chat)
                 /\ chat'.hunger \in 0..100 /\ chat'.mood \in 0..100
                 /\ chat'.energy \in 0..100 /\ chat'.health \in 0..100
           /\ (draw.r1 > 30 \/ draw.r2 > NominalProbability(draw.kind))
              => /\ ~last'.success /\ last'.event = "None"
                 /\ chat' = chat
                 /\ appended' = <<>>]_vars

\* C18 witness: both draws passed and the Visitor's first outcome has healed
\* the pet stored with vitals 5/1/5/5.
C18_Witness ==
    /\ last.op = "trigger_random_event" /\ last.event = "Visitor"
    /\ draw.r1 = 29 /\ draw.r2 = 14 /\ draw.k = 1
    /\ chat.hunger = 100 /\ chat.mood = 100 /\ chat.energy = 100
    /\ chat.health = 100 /\ chat.xp = 99
    /\ appended = <<Event("RANDOM_EVENT", "None")>>

\* The four vitals of a row.
Vitals(c) == <<c.hunger, c.mood, c.energy, c.health>>

\* The row one whole tick pass (sleep check, decay, evolution check) leaves.
SerialTick(c, current_hour) ==
    IF ~c.is_alive THEN c
    ELSE LET t == TickStats(CheckSleepStatus(c, current_hour))
         IN IF t.is_alive THEN CheckAndEvolve(t.chat).chat ELSE t.chat

\* The row one whole /feed command leaves.
SerialFeed(c, user_id) ==
    IF c.is_sleeping THEN DisturbAtNight(c, user_id).chat
    ELSE Feed(c, user_id).chat

\* Both the tick job and the /feed handler have finished.
RaceOver == race.tick_pc = "done" /\ race.feed_pc = "done"

\* C19: every interleaving of one tick (sleep check plus decay) with one
\* concurrent /feed on the same chat ends with the vitals one of the two
\* serial orders, tick then feed or feed then tick, produces.
C19_TickFeedSerializable ==
    RaceOver =>
        \E u \in Users :
            Vitals(chat) \in
                { Vitals(SerialFeed(SerialTick(race.start, race.hour), u)),
                  Vitals(SerialTick(SerialFeed(race.start, u), race.hour)) }

\* The pass has gone through all the pets it selected.
PassOver == batch.pos = Len(batch.selected) + 1

\* C20: in a tick pass, a random-event pass or a sleep-recheck pass, an error
\* raised while processing one pet does not stop the pass: the pets before
\* the current position have each been processed exactly once and the ones
\* after it not yet, so at the end every selected pet has been processed
\* exactly once; a pet whose body did not raise holds the result of its own
\* whole body (tick and sleep passes), whatever happened to the others.
C20_ErrorDoesNotStopThePass ==
    batch.pos >= 1
    => /\ batch.pos <= Len(batch.selected) + 1
       /\ \A i \in 1..Len(batch.selected) :
             batch.entered[batch.selected[i]] = IF i < batch.pos THEN 1 ELSE 0
       /\ PassOver
            => \A i \in 1..Len(batch.selected) :
                  LET id == batch.selected[i]
                      clean == \A j \in 1..Len(batch.raised) : batch.raised[j] # id
                  IN /\ batch.entered[id] = 1
                     /\ (clean /\ batch.job = "tick_all_pets")
                          => batch.rows[id] = SerialTick(batch.start[id], batch.hour)
                     /\ (clean /\ batch.job = "check_sleep_all")
                          => batch.rows[id] = CheckSleepStatus(batch.start[id], batch.hour)

\* C20 witness: a tick pass over three pets is over, the body of the second
\* pet raised, and the third pet has been ticked.
C20_Witness ==
    /\ batch.job = "tick_all_pets" /\ PassOver
    /\ batch.selected = <<1, 2, 3>>
    /\ batch.raised = <<2>>
    /\ batch.entered[3] = 1
    /\ batch.rows[3] # batch.start[3]
    /\ batch.rows[3] = SerialTick(batch.start[3], batch.hour)

\* C21: a failed notification (death message, critical alert, evolution
\* announcement or event message) leaves the committed pet state as it was
\* and does not end the processing of that pet: the row a failed death,
\* evolution or event notice was sent about is still the stored row, the pet
\* is not among those whose body raised unless one of its calls raised, and
\* after a failed critical alert the stored row is the one the evolution
\* check leaves.
C21_FailedNotificationIsSwallowed ==
    \A j \in 1..Len(batch.notices) :
        LET n == batch.notices[j]
            calls_ok == batch.failed_call[n.id] = "none"
        IN n.failed
           => /\ calls_ok => \A i \in 1..Len(batch.raised) : batch.raised[i] # n.id
              /\ n.kind \in {"death", "evolution", "event"} => batch.rows[n.id] = n.row
              /\ n.kind = "critical"
                    => batch.rows[n.id] = IF calls_ok THEN CheckAndEvolve(n.row).chat
                                          ELSE n.row

\* C21 witness: the critical alert of a pet failed and the same pass then
\* evolved that pet (its evolution announcement failed as well).
C21_Witness ==
    /\ batch.job = "tick_all_pets"
    /\ \E j \in 1..Len(batch.notices) :
          LET n == batch.notices[j]
          IN /\ n.kind = "critical" /\ n.failed
             /\ n.row.pet_stage = "BABY"
             /\ batch.rows[n.id].pet_stage = "TEEN"
             /\ batch.rows[n.id].health = n.row.health
             /\ j < Len(batch.notices)
             /\ batch.notices[j + 1] = Notice(n.id, "evolution", TRUE, batch.rows[n.id])

\* C22: between two revivals the stored xp of the pet never decreases,
\* whatever the interleaving of the callers that add xp (feed, play, the
\* group message handler, the Box event): no step other than a revival
\* lowers the stored xp.
C22_XpNeverDecreases ==
    [][(has_chat /\ ~IsRevival) => chat'.xp >= chat.xp]_vars

\* C23: in every reachable state the stored level equals floor(xp / 100) + 1,
\* and between two revivals the stored level never decreases.
C23_LevelFollowsXp ==
    /\ [](has_chat => chat.level = (chat.xp \div 100) + 1)
    /\ [][(has_chat /\ ~IsRevival) => chat'.level >= chat.level]_vars

C25_NoEventOnDeadOrSleeping ==
    [][(/\ flight.handler = "trigger_random_events"
        /\ flight.calls # <<>>
        /\ flight'.calls = Tail(flight.calls)
        /\ (~chat.is_alive \/ chat.is_sleeping))
        => (Vitals(chat') = Vitals(chat) /\ chat'.xp = chat.xp)]_vars

\* C26: an event fires only if the first draw is strictly below 0.30 and the
\* second draw strictly below the chosen kind's probability; a draw equal to
\* its threshold does not pass.
C26_StrictGates ==
    (last.op = "trigger_random_event" /\ last.success)
        => (draw.r1 < 30 /\ draw.r2 < NominalProbability(draw.kind))

\* C27 as stated: every gamble outcome, win or loss, is applied to a pet that
\* is alive and has hunger >= 30 at the moment the outcome is applied, also
\* when a tick, a play or another gamble lowered the hunger between the offer
\* and the press.
C27_Original ==
    [][(last'.op = "gamble_play" /\ last'.success)
        => (chat.is_alive /\ chat.hunger >= 30)]_vars

\* C27 amended: the keyboard is shown only to a pet that is alive with
\* hunger >= 30, and every gamble outcome is applied to a pet that is alive
\* at the press, from a keyboard that was shown; the hunger at the press is
\* whatever the pet has by then.
C27_HungerCheckedAtOffer ==
    [][/\ (last'.op = "cmd_gamble" /\ last'.success)
            => (chat.is_alive /\ chat.hunger >= 30 /\ offers' = offers + 1)
       /\ offers' > offers => (last'.op = "cmd_gamble" /\ last'.success)
       /\ (last'.op = "gamble_play" /\ last'.success)
            => /\ chat.is_alive /\ offers > 0
               /\ chat'.hunger \in {Min(100, chat.hunger + 50),
                                    Max(0, chat.hunger - 30)}]_vars

\* C27 witness: the keyboard was on screen for the pet with hunger 30, a tick
\* or a /play took the hunger to 25, and the press then won: hunger 75.
C27_Witness ==
    /\ last.op = "gamble_play" /\ last.success /\ clock = 2
    /\ chat.pet_stage = "BABY" /\ chat.xp \in 120..135
    /\ chat.hunger = 75

\* C28: in a tick pass that finds a sleeping pet outside the night window the
\* wake-up restore comes before the decay: the energy stored at the end of
\* the pass is max(0, min(100, old energy + 50) - decay), and the energy < 20
\* health penalty is evaluated on that value.
C28_WakeBeforeDecay ==
    [][(/\ has_chat /\ chat.is_alive /\ chat.is_sleeping
        /\ ~InCyclicWindow(night.current_hour, NIGHT_START_HOUR, NIGHT_END_HOUR)
        /\ last'.op = "tick")
        => LET restored == Min(100, chat.energy + 50)
               new_hunger == Max(0, chat.hunger - STAT_DECAY_PER_TICK)
               new_mood == Max(0, chat.mood - STAT_DECAY_PER_TICK)
               new_energy == Max(0, restored - STAT_DECAY_PER_TICK)
               P == (IF new_hunger < 20 THEN 10 ELSE 0)
                    + (IF new_mood < 20 THEN 5 ELSE 0)
                    + (IF new_energy < 20 THEN 5 ELSE 0)
           IN /\ ~chat'.is_sleeping
              /\ chat'.energy = new_energy
              /\ chat'.health = Max(0, chat.health - P)]_vars

\* C28 witness: at hour 12 a tick found the pet asleep with energy 15 and
\* health 20: it ends awake with energy 60 and, no penalty being due on 60,
\* health 20.
C28_Witness ==
    /\ last.op = "tick" /\ clock = 1
    /\ night.current_hour = 12
    /\ ~chat.is_sleeping /\ chat.is_alive
    /\ chat.hunger = 30 /\ chat.mood = 45 /\ chat.energy = 60 /\ chat.health = 20

\* C29: a tick that leaves the pet alive emits one CRITICAL_HEALTH event if
\* and only if the health after the tick is below the critical threshold
\* (10), reports is_critical accordingly and stamps last_tick; a tick that
\* finds the health already below the threshold does so again.
C29_CriticalAlertEveryTick ==
    (last.op = "tick" /\ last.is_alive)
        => LET alerts == { i \in DOMAIN appended :
                              appended[i].event_type = "CRITICAL_HEALTH" }
               critical == chat.health < CRITICAL_HEALTH_THRESHOLD
           IN /\ chat.is_alive
              /\ Cardinality(alerts) = (IF critical THEN 1 ELSE 0)
              /\ last.is_critical = critical
              /\ last.last_tick_stamped

\* C29 witness: the second of two ticks on the pet stored with vitals 60/60/60
\* and health 5 has raised the alert again.
C29_Witness ==
    /\ last.op = "tick" /\ last.is_alive /\ last.is_critical /\ clock = 2
    /\ chat.hunger = 50 /\ chat.mood = 50 /\ chat.health = 5
    /\ appended = <<Event("CRITICAL_HEALTH", "None")>>

\* The four behaviour counters of a row.
Counters(c) == <<c.cursing_count, c.meme_count, c.code_count, c.caps_count>>

\* C30: each of the four behaviour counters never decreases between two
\* revivals, and the message, sticker and photo handlers never change one
\* while the pet is dead, under every interleaving of concurrent handlers.
C30_CountersMonotone ==
    [][/\ (has_chat /\ ~IsRevival)
            => /\ chat'.cursing_count >= chat.cursing_count
               /\ chat'.meme_count >= chat.meme_count
               /\ chat'.code_count >= chat.code_count
               /\ chat'.caps_count >= chat.caps_count
       /\ (/\ has_chat /\ ~chat.is_alive
           /\ flight.handler \in {"handle_group_message", "handle_sticker",
                                  "handle_photo"}
           /\ flight.calls # <<>>
           /\ flight'.calls = Tail(flight.calls))
            => Counters(chat') = Counters(chat)]_vars

\* C31: increment_behavior_counter called with a counter name outside
\* {cursing_count, meme_count, code_count, caps_count}, and increment_stat
\* called with a stat name outside its seven-name allow-list, return and
\* leave every pet and user field unchanged; no user record is created.
C31_UnknownNamesIgnored ==
    [][/\ (/\ last'.op = "increment_behavior_counter"
           /\ last'.event \notin {"cursing_count", "meme_count", "code_count",
                                  "caps_count"})
            => (chat' = chat /\ users' = users /\ has_chat' = has_chat)
       /\ (/\ last'.op = "increment_stat"
           /\ last'.event \notin {"karma_points", "feed_count", "play_count",
                                  "message_count", "night_disturb_count",
                                  "gamble_wins", "gamble_losses"})
            => (chat' = chat /\ users' = users /\ has_chat' = has_chat)]_vars

\* C31 witness: increment_behavior_counter("hunger") and then
\* increment_stat("xp") have returned; the pet stored with hunger 35 and xp
\* 1500 is as it was and the user has no record.
C31_Witness ==
    /\ last.op = "increment_stat" /\ last.event = "xp" /\ clock = 2
    /\ has_chat /\ chat.hunger = 35 /\ chat.xp = 1500 /\ chat.code_count = 50
    /\ \A u \in Users : users[u] = NewUser

\* C32: when night_start equals night_end the night window
\* [night_start, night_end) is empty: is_night_time is false for every hour
\* 0..23, so no pet is ever put to sleep.
C32_EqualBoundsEmptyWindow ==
    (night.returned /\ night.night_start = night.night_end)
        => night.is_night = FALSE

\* C33: the audit log only grows.  Every operation leaves the rows the
\* events table held in place and in order and puts its own rows after them;
\* every successful feed, play, gamble, night disturbance, evolution, tick
\* death and fired random event appends exactly one row of the matching
\* type, and a rejected feed or play (dead pet, too tired) appends none.
C33_AuditLogOnlyGrows ==
    [][LET old == events.rows
           new == events.rows'
           Count(t) == Cardinality({ i \in DOMAIN appended' :
                                        appended'[i].event_type = t })
           One(b) == IF b THEN 1 ELSE 0
       IN /\ Len(new) >= Len(old)
          /\ SubSeq(new, 1, Len(old)) = old
          /\ SubSeq(new, Len(old) + 1, Len(new)) = appended'
          /\ Count("FEED") = One(last'.op = "cmd_feed" /\ last'.success)
          /\ Count("PLAY") = One(last'.op = "cmd_play" /\ last'.success)
          /\ Count("GAMBLE_WIN") + Count("GAMBLE_LOSS")
                = One(last'.op = "gamble_play" /\ last'.success)
          /\ Count("NIGHT_DISTURB") = One(last'.disturbed)
          /\ Count("EVOLUTION") = One(last'.evolved)
          /\ Count("DEATH") = One(last'.op = "tick" /\ has_chat /\ chat.is_alive
                                  /\ ~chat'.is_alive)
          /\ Count("RANDOM_EVENT") = One(last'.op = "random_event" /\ last'.success)
          /\ (last'.op \in {"cmd_feed", "cmd_play"} /\ ~last'.success
                /\ ~last'.disturbed) => appended' = <<>>]_vars

\* C33 witness: the table of a pet past the egg held its EVOLUTION row; a
\* feed and then a play have each put one row after it.
C33_Witness ==
    /\ events.kept
    /\ events.rows = <<Event("EVOLUTION", "None"), Event("FEED", "u1"),
                       Event("PLAY", "u1")>>
    /\ last.op = "cmd_play" /\ last.success

\* The highest stage whose threshold the xp has reached.
HighestStageFor(xp) ==
    LET reached == { st \in PetStage : STAGE_THRESHOLDS[st] <= xp }
    IN CHOOSE st \in reached :
          \A other \in reached : STAGE_THRESHOLDS[other] <= STAGE_THRESHOLDS[st]

\* C34: each check_and_evolve call advances the stage by at most one step,
\* and an alive pet whose xp already meets the threshold of a stage several
\* steps ahead eventually reaches the highest stage whose threshold is <=
\* its xp, one step per tick pass, as long as tick passes keep running and
\* the pet stays alive.
C34_OneStagePerPass ==
    /\ [][StageIndex(chat'.pet_stage)
            = IF chat'.is_alive
                 /\ StageIndex(chat.pet_stage) < StageIndex(HighestStageFor(chat.xp))
              THEN StageIndex(chat.pet_stage) + 1
              ELSE StageIndex(chat.pet_stage)]_vars
    /\ chat.is_alive
          ~> (chat.pet_stage = HighestStageFor(chat.xp) \/ ~chat.is_alive)

\* C34 witness: the egg stored with xp 5000 is ANCIENT after its fourth pass.
C34_Witness ==
    /\ clock = 4 /\ last.op = "tick" /\ last.evolved
    /\ last.new_stage = "ANCIENT"
    /\ chat.pet_stage = "ANCIENT" /\ chat.xp = 5000 /\ chat.hunger = 80
    /\ chat.is_alive

\* C35: in every reachable state the xp of the pet is at least the threshold
\* of its current stage (EGG 0, BABY 100, TEEN 500, ADULT 1500, ANCIENT
\* 5000), under every interleaving of evolution checks with concurrent xp
\* writers.
C35_XpCoversStage ==
    has_chat =>
        chat.xp >= (CASE chat.pet_stage = "EGG" -> 0
                      [] chat.pet_stage = "BABY" -> 100
                      [] chat.pet_stage = "TEEN" -> 500
                      [] chat.pet_stage = "ADULT" -> 1500
                      [] chat.pet_stage = "ANCIENT" -> 5000)

\* C36: in every reachable state a pet whose stage is EGG or BABY has type
\* NORMAL; a type other than NORMAL occurs only at stage TEEN or later.
C36_TypeOnlyFromTeen ==
    (has_chat /\ chat.pet_stage \in {"EGG", "BABY"}) => chat.pet_type = "NORMAL"

\* C36 witness: a tick has made a BABY of the egg stored with xp 1500 and
\* code_count 50; the counters would give CYBER_BOT, the type is NORMAL.
C36_Witness ==
    /\ last.op = "tick" /\ last.evolved /\ last.new_stage = "BABY"
    /\ chat.pet_stage = "BABY" /\ chat.pet_type = "NORMAL"
    /\ chat.code_count = 50 /\ chat.xp = 1500

\* The step is the Visitor's heal-all outcome, run whole by the event job or
\* as the execute call of an event job in flight.
IsVisitorHealAll ==
    /\ Vitals(chat') = <<100, 100, 100, 100>>
    /\ \/ last'.op = "random_event" /\ last'.event = "Visitor"
       \/ /\ flight.calls # <<>> /\ flight'.calls = Tail(flight.calls)
          /\ Head(flight.calls) = ExecuteCall("Visitor", 1)

\* C37: the health of a pet never increases except through the Visitor
\* event's heal-all outcome or a revival: feed, play, gamble, waking up,
\* ticks, Box and Weather events and the message handlers leave the health
\* as it is or lower it.  Holds with the handlers run one at a time; a
\* handler in flight commits the health it computed from the row it loaded.
C37_HealthOnlyHealedByVisitor ==
    [][(has_chat /\ chat'.health > chat.health)
        => (IsRevival \/ IsVisitorHealAll)]_vars

\* The run of the fresh pet under the hourly tick alone: an egg with xp 0
\* whose hunger has lost the decay once per pass from 100.
FreshPetRun ==
    /\ chat.pet_stage = "EGG" /\ chat.xp = 0
    /\ chat.hunger = Max(0, 100 - STAT_DECAY_PER_TICK * clock)

\* C38: with the default configuration (decay 5, critical threshold 10) a
\* fresh pet that gets no user action, no random event and no sleep
\* transition is alive after each of the first 20 ticks, dies on the 21st,
\* and no tick before its death emits a CRITICAL_HEALTH event.
C38_FreshPetDiesOnTick21 ==
    FreshPetRun =>
        /\ clock <= 21
        /\ clock <= 20 =>
              /\ chat.is_alive
              /\ ~last.is_critical
              /\ \A i \in 1..Len(appended) : appended[i].event_type # "CRITICAL_HEALTH"
        /\ clock = 21 =>
              /\ ~chat.is_alive /\ chat.health = 0
              /\ appended = <<Event("DEATH", "None")>>

\* C38 witness: the 21st tick has killed the fresh pet.
C38_Witness ==
    /\ FreshPetRun /\ clock = 21 /\ last.op = "tick"
    /\ ~chat.is_alive /\ appended = <<Event("DEATH", "None")>>

\* C39: the alive flag goes from false to true only through the revival of
\* /start, which runs only when the pet is dead; /start on a living pet
\* changes no field of the pet; the sleeping flag stays as it was at the
\* death while the pet is dead and through the revival.
C39_RevivalOnlyByStart ==
    [][/\ (has_chat /\ ~chat.is_alive /\ chat'.is_alive) => IsRevival
       /\ IsRevival => /\ has_chat /\ ~chat.is_alive /\ chat'.is_alive
                       /\ chat'.is_sleeping = chat.is_sleeping
       /\ (last'.op = "cmd_start" /\ has_chat /\ chat.is_alive) => chat' = chat
       /\ (has_chat /\ ~chat.is_alive) => chat'.is_sleeping = chat.is_sleeping]_vars

\* C39 witness: /start has revived a pet that died asleep, and the new egg
\* is still asleep.
C39_Witness ==
    /\ last.op = "cmd_start" /\ last.success
    /\ chat.is_alive /\ chat.is_sleeping /\ chat.pet_stage = "EGG" /\ chat.xp = 0

====
